---- MODULE Spec2Model ----
(***************************************************************************)
(* A model of FuContext (libfwupdplugin/fu-context.c): the context flags,  *)
(* the hardware-info pipeline with its gated HWID/SMBIOS accessors, and    *)
(* the cache of EFI system partition volumes.                              *)
(*                                                                         *)
(* The Context is used from one thread, so a public function is one        *)
(* action; fu_context_load_hwinfo is split at its progress steps, and no   *)
(* other function runs while it is between two of them (pc # "idle").      *)
(* What the last call returned and did is kept in the variable call.       *)
(***************************************************************************)
EXTENDS Integers, Sequences, FiniteSets, TLC

VARIABLES
    flags,              \* priv->flags, the set of FuContextFlags bits that are set
    hwids,              \* priv->hwids: [values: keys that have a value, guids: array of GUIDs]
    smbios,             \* priv->smbios: the SMBIOS structure types that were loaded
    quirks,             \* priv->quirks: TRUE once the quirk database has been loaded
    hwid_flags,         \* priv->hwid_flags
    udev_subsystems,    \* priv->udev_subsystems: subsystem -> sorted array of plugin names
    host_bios_settings, \* priv->host_bios_settings: TRUE once the settings were read
    esp_volumes,        \* priv->esp_volumes, the array of cached FuVolume objects
    esp_location,       \* priv->esp_location, NULL or Ptr(path)
    env_esp_path,       \* the environment variable FWUPD_UEFI_ESP_PATH, NULL or Ptr(path)
    discovered,         \* history: fu_context_get_esp_volumes has returned a list
    power_state,        \* priv->power_state, a FuPowerState
    lid_state,          \* priv->lid_state, a FuLidState
    display_state,      \* priv->display_state, a FuDisplayState
    battery_level,      \* priv->battery_level
    battery_threshold,  \* priv->battery_threshold
    backends,           \* priv->backends, the array of FuBackend objects
    fdt,                \* priv->fdt, NULL or Ptr(the parsed device tree)
    fdt_files,          \* the two files fu_context_get_fdt_file looks for
    pc,                 \* where fu_context_load_hwinfo stands, "idle" between calls
    call                \* the last call: its name, arguments, result and what it did

hwVars == <<flags, hwids, smbios, quirks, hwid_flags, udev_subsystems, host_bios_settings>>
espVars == <<esp_volumes, esp_location, env_esp_path, discovered>>
\* what the ESP functions leave alone
storeVars == <<hwids, smbios, quirks, hwid_flags, udev_subsystems, host_bios_settings>>
\* the properties of the Context that are plain values
propVars == <<power_state, lid_state, display_state, battery_level, battery_threshold>>
\* what neither the hardware-info functions nor the ESP functions touch
miscVars == <<propVars, backends, fdt, fdt_files>>
vars == <<hwVars, espVars, miscVars, pc, call>>

(***************************************************************************)
(* Values                                                                  *)
(***************************************************************************)
NULL == <<>>                \* a NULL pointer; a non-NULL result x is <<x>>
Ptr(x) == <<x>>
\* the all-ones guint, (guint)-1; TLC's integers end below 2^32
G_MAXUINT == -1
NoError == "none"
\* fwupd-enums.h: the battery level that means unknown, one above 100 percent
FWUPD_BATTERY_LEVEL_INVALID == 101
\* the first value of the three state enumerations
FU_POWER_STATE_UNKNOWN == 0
FU_LID_STATE_UNKNOWN == 0
FU_DISPLAY_STATE_UNKNOWN == 0
\* an absent file
NoFile == "absent"

LOADED_HWINFO == "LOADED_HWINFO"
FDE_BITLOCKER == "FDE_BITLOCKER"
FDE_SNAPD == "FDE_SNAPD"
INHIBIT_VOLUME_MOUNT == "INHIBIT_VOLUME_MOUNT"

(***************************************************************************)
(* The stores behind the Context: FuHwids, FuSmbios, FuQuirks.  Their code *)
(* is outside fu-context.c; they are kept as small as the Context's use of *)
(* them allows.                                                            *)
(***************************************************************************)
\* the keys and GUIDs callers ask for; the platform of the model provides the
\* first key only, and only "guid-Manufacturer" is derived from it
HwidKeys == {"Manufacturer", "ProductName"}
HwidGuids == {"guid-Manufacturer", "guid-unknown"}
SmbiosTypes == {0, 1}

HwidGuidOf(key) == "guid-" \o key

\* the keys a setup function provides when it succeeds
ProbeKeys(name) == {"Manufacturer"}

\* what a setup function leaves in the stores: success adds its keys, and the
\* smbios one also loads the SMBIOS tables; failure adds nothing
ProbeHwids(h, name, ok) ==
    IF ok THEN [h EXCEPT !.values = @ \cup ProbeKeys(name)] ELSE h
ProbeSmbios(s, name, ok) ==
    IF ok /\ name = "smbios" THEN s \cup {0} ELSE s

\* fu_hwids_setup: on success every key with a value yields its GUID, once
fu_hwids_setup(h, ok) ==
    LET has(g) == \E i \in 1..Len(h.guids) : h.guids[i] = g
        new(g) == ~has(g) /\ \E k \in h.values : HwidGuidOf(k) = g
    IN IF ok
       THEN [h EXCEPT !.guids = @ \o SelectSeq(<<"guid-Manufacturer">>, new)]
       ELSE h

fu_hwids_has_guid(h, guid) == \E i \in 1..Len(h.guids) : h.guids[i] = guid
fu_hwids_get_guids(h) == Ptr(h.guids)
fu_hwids_get_value(h, key) == IF key \in h.values THEN Ptr(<<"value", key>>) ELSE NULL
fu_hwids_get_replace_values(h, key) ==
    IF key \in h.values THEN [ret |-> Ptr(<<"value", key>>), err |-> NoError]
    ELSE [ret |-> NULL, err |-> "FWUPD_ERROR_NOT_FOUND"]

fu_smbios_get_string(s, type) ==
    IF type \in s THEN [ret |-> Ptr(<<"string", type>>), err |-> NoError]
    ELSE [ret |-> NULL, err |-> "FWUPD_ERROR_INVALID_FILE"]
fu_smbios_get_data(s, type) ==
    IF type \in s THEN [ret |-> Ptr(<<"data", type>>), err |-> NoError]
    ELSE [ret |-> NULL, err |-> "FWUPD_ERROR_INVALID_FILE"]
fu_smbios_get_integer(s, type) ==
    IF type \in s THEN [ret |-> 7, err |-> NoError]
    ELSE [ret |-> G_MAXUINT, err |-> "FWUPD_ERROR_INVALID_FILE"]

\* the value of the Flags quirk of a GUID, a string kept as its pieces;
\* NULL: no match
QuirkFlagsOf(guid) ==
    IF guid = "guid-Manufacturer"
    THEN Ptr(<<"use-legacy-bootmgr-desc", ",", "no-ux-capsule">>)
    ELSE IF guid = "guid-unknown" THEN Ptr(<<"other-flag">>)
    ELSE NULL

\* g_strsplit(value, delimiter, -1): the strings between the delimiters, none
\* for the empty string
RECURSIVE g_strsplit_from(_, _, _, _, _)
g_strsplit_from(value, delimiter, i, token, values) ==
    IF i > Len(value) THEN Append(values, token)
    ELSE IF value[i] = delimiter
         THEN g_strsplit_from(value, delimiter, i + 1, "", Append(values, token))
         ELSE g_strsplit_from(value, delimiter, i + 1, token \o value[i], values)
g_strsplit(value, delimiter) ==
    IF Len(value) = 0 THEN <<>> ELSE g_strsplit_from(value, delimiter, 1, "", <<>>)

(***************************************************************************)
(* Context flags                                                           *)
(***************************************************************************)
fu_context_has_flag(f, flag) == (f \cap flag) # {}

fu_context_add_flag(f, flag) ==
    IF (f \cap flag) # {} THEN f ELSE f \cup flag

fu_context_remove_flag(f, flag) ==
    IF (f \cap flag) = {} THEN f ELSE f \ flag

\* how many times each of them calls g_object_notify: once unless it
\* returned early
fu_context_add_flag_notify(f, flag) == IF (f \cap flag) # {} THEN 0 ELSE 1
fu_context_remove_flag_notify(f, flag) == IF (f \cap flag) = {} THEN 0 ELSE 1

(***************************************************************************)
(* The gated read accessors.  Each yields what the function returns, the   *)
(* error it sets and whether it went to the store (consulted).             *)
(***************************************************************************)
fu_context_has_hwid_guid(guid) ==
    IF ~fu_context_has_flag(flags, {LOADED_HWINFO})
    THEN [ret |-> FALSE, err |-> NoError, consulted |-> FALSE]
    ELSE [ret |-> fu_hwids_has_guid(hwids, guid), err |-> NoError, consulted |-> TRUE]

fu_context_get_hwid_guids ==
    IF ~fu_context_has_flag(flags, {LOADED_HWINFO})
    THEN [ret |-> NULL, err |-> NoError, consulted |-> FALSE]
    ELSE [ret |-> fu_hwids_get_guids(hwids), err |-> NoError, consulted |-> TRUE]

fu_context_get_hwid_value(key) ==
    IF ~fu_context_has_flag(flags, {LOADED_HWINFO})
    THEN [ret |-> NULL, err |-> NoError, consulted |-> FALSE]
    ELSE [ret |-> fu_hwids_get_value(hwids, key), err |-> NoError, consulted |-> TRUE]

fu_context_get_hwid_replace_value(keys) ==
    IF ~fu_context_has_flag(flags, {LOADED_HWINFO})
    THEN [ret |-> NULL, err |-> "FWUPD_ERROR_INTERNAL", consulted |-> FALSE]
    ELSE LET r == fu_hwids_get_replace_values(hwids, keys)
         IN [ret |-> r.ret, err |-> r.err, consulted |-> TRUE]

fu_context_get_smbios_string(type) ==
    IF ~fu_context_has_flag(flags, {LOADED_HWINFO})
    THEN [ret |-> NULL, err |-> NoError, consulted |-> FALSE]
    ELSE LET r == fu_smbios_get_string(smbios, type)
         IN [ret |-> r.ret, err |-> r.err, consulted |-> TRUE]

fu_context_get_smbios_data(type) ==
    IF ~fu_context_has_flag(flags, {LOADED_HWINFO})
    THEN [ret |-> NULL, err |-> "FWUPD_ERROR_INTERNAL", consulted |-> FALSE]
    ELSE LET r == fu_smbios_get_data(smbios, type)
         IN [ret |-> r.ret, err |-> r.err, consulted |-> TRUE]

\* the accessor without its guard
fu_context_get_smbios_integer_unguarded(type) ==
    LET r == fu_smbios_get_integer(smbios, type)
    IN [ret |-> r.ret, err |-> r.err, consulted |-> TRUE]

fu_context_get_smbios_integer(type) ==
    IF ~fu_context_has_flag(flags, {LOADED_HWINFO})
    THEN [ret |-> G_MAXUINT, err |-> NoError, consulted |-> FALSE]
    ELSE LET r == fu_smbios_get_integer(smbios, type)
         IN [ret |-> r.ret, err |-> r.err, consulted |-> TRUE]

\* a call of an accessor: nothing of the Context changes, call records the answer
Accessor(name, arg, r) ==
    /\ pc = "idle"
    /\ UNCHANGED miscVars
    /\ call' = [op |-> name, arg |-> arg, ret |-> r.ret, err |-> r.err,
                consulted |-> r.consulted]
    /\ UNCHANGED espVars
    /\ UNCHANGED <<hwVars, pc>>

HasHwidGuid == \E g \in HwidGuids : Accessor("has_hwid_guid", g, fu_context_has_hwid_guid(g))
GetHwidGuids == Accessor("get_hwid_guids", NULL, fu_context_get_hwid_guids)
GetHwidValue == \E k \in HwidKeys : Accessor("get_hwid_value", k, fu_context_get_hwid_value(k))
GetHwidReplaceValue ==
    \E k \in HwidKeys :
        Accessor("get_hwid_replace_value", k, fu_context_get_hwid_replace_value(k))
GetSmbiosString ==
    \E t \in SmbiosTypes : Accessor("get_smbios_string", t, fu_context_get_smbios_string(t))
GetSmbiosData ==
    \E t \in SmbiosTypes : Accessor("get_smbios_data", t, fu_context_get_smbios_data(t))
GetSmbiosInteger ==
    \E t \in SmbiosTypes : Accessor("get_smbios_integer", t, fu_context_get_smbios_integer(t))

(***************************************************************************)
(* fu_context_add_flag / fu_context_remove_flag as calls                   *)
(***************************************************************************)
AddFlag(masks) ==
    \E flag \in masks :
        /\ pc = "idle"
        /\ flags' = fu_context_add_flag(flags, flag)
        /\ UNCHANGED miscVars
        /\ call' = [op |-> "add_flag", arg |-> flag,
                    notified |-> fu_context_add_flag_notify(flags, flag)]
        /\ UNCHANGED espVars
        /\ UNCHANGED <<hwids, smbios, quirks, hwid_flags, udev_subsystems,
                       host_bios_settings, pc>>

RemoveFlag(masks) ==
    \E flag \in masks :
        /\ pc = "idle"
        /\ flags' = fu_context_remove_flag(flags, flag)
        /\ UNCHANGED miscVars
        /\ call' = [op |-> "remove_flag", arg |-> flag,
                    notified |-> fu_context_remove_flag_notify(flags, flag)]
        /\ UNCHANGED espVars
        /\ UNCHANGED <<hwids, smbios, quirks, hwid_flags, udev_subsystems,
                       host_bios_settings, pc>>

(***************************************************************************)
(* udev subsystems.  A subsystem is <<base>> or <<base, devtype>>, which   *)
(* is what g_strsplit(subsystem, ":", 2) makes of it; a plugin name is     *)
(* NULL or Ptr(name).                                                      *)
(***************************************************************************)
PluginOrder == <<"acpi_ivrs", "focalfp", "redfish">>   \* in g_strcmp0 order
PluginRank(n) == CHOOSE i \in 1..Len(PluginOrder) : PluginOrder[i] = n

\* g_ptr_array_sort with fu_context_udev_plugin_names_sort_cb
SortPluginNames(arr) ==
    LET held(n) == \E i \in 1..Len(arr) : arr[i] = n
        count(n) == Cardinality({i \in 1..Len(arr) : arr[i] = n})
        RECURSIVE rep(_, _)
        rep(n, k) == IF k = 0 THEN <<>> ELSE <<n>> \o rep(n, k - 1)
        RECURSIVE walk(_)
        walk(r) == IF r > Len(PluginOrder) THEN <<>>
                   ELSE rep(PluginOrder[r], count(PluginOrder[r])) \o walk(r + 1)
    IN walk(1)

udev_subsystem_add(tbl, subsystem, plugin_name) ==
    IF subsystem \in DOMAIN tbl
    THEN IF plugin_name # NULL
         THEN IF \E i \in 1..Len(tbl[subsystem]) : tbl[subsystem][i] = plugin_name[1]
              THEN tbl
              ELSE [tbl EXCEPT ![subsystem] = SortPluginNames(Append(@, plugin_name[1]))]
         ELSE tbl
    ELSE (subsystem :> (IF plugin_name # NULL THEN <<plugin_name[1]>> ELSE <<>>)) @@ tbl

\* the same registration without the watch of the base subsystem
fu_context_add_udev_subsystem_exact(tbl, subsystem, plugin_name) ==
    udev_subsystem_add(tbl, subsystem, plugin_name)

fu_context_add_udev_subsystem(tbl, subsystem, plugin_name) ==
    LET based == IF Len(subsystem) > 1
                 THEN udev_subsystem_add(tbl, <<subsystem[1]>>, NULL)
                 ELSE tbl
    IN udev_subsystem_add(based, subsystem, plugin_name)

(***************************************************************************)
(* fu_context_load_quirks                                                  *)
(***************************************************************************)
\* the same call handing the failure of fu_quirks_load to its caller
fu_context_load_quirks_propagate(ok) ==
    [ret |-> ok, err |-> IF ok THEN NoError ELSE "quirks"]

\* what the call returns: the failure of fu_quirks_load is only warned about
fu_context_load_quirks(ok) == [ret |-> TRUE, err |-> NoError]

LoadQuirks ==
    \E ok \in BOOLEAN :
        /\ pc = "idle"
        /\ quirks' = (quirks \/ ok)
        /\ UNCHANGED miscVars
        /\ call' = [op |-> "load_quirks", quirks_ok |-> ok,
                    ret |-> fu_context_load_quirks(ok).ret,
                    err |-> fu_context_load_quirks(ok).err]
        /\ UNCHANGED espVars
        /\ UNCHANGED <<flags, hwids, smbios, hwid_flags, udev_subsystems,
                       host_bios_settings, pc>>

(***************************************************************************)
(* fu_context_load_hwinfo                                                  *)
(***************************************************************************)
hwids_setup_map ==
    << [name |-> "config", flag |-> "LOAD_CONFIG"],
       [name |-> "smbios", flag |-> "LOAD_SMBIOS"],
       [name |-> "fdt",    flag |-> "LOAD_FDT"],
       [name |-> "kenv",   flag |-> "LOAD_KENV"],
       [name |-> "dmi",    flag |-> "LOAD_DMI"],
       [name |-> "darwin", flag |-> "LOAD_DARWIN"] >>

FuContextHwidFlags == {hwids_setup_map[i].flag : i \in 1..Len(hwids_setup_map)}

\* the five fu_progress_add_step weights
ProgressSteps == <<1, 1, 3, 1, 94>>

\* the same place going on to the setup functions whatever fu_config_load said
load_hwinfo_after_config_continue(config_ok) == "hwids-setup-funcs"

\* where the call is after fu_config_load: a failure returns at once
load_hwinfo_after_config(config_ok) ==
    IF config_ok THEN "hwids-setup-funcs" ELSE "idle"

\* fu_progress_step_done: one more step of the progress is finished
fu_progress_step_done(c) == [c EXCEPT !.done = @ + 1]

\* entry: the progress steps are declared and the config is loaded; a config
\* that does not load ends the call
LoadHwinfoBegin ==
    \E hwflags \in SUBSET FuContextHwidFlags, config_ok \in BOOLEAN :
        /\ pc = "idle"
        /\ UNCHANGED miscVars
        /\ call' = [op |-> "load_hwinfo", hwflags |-> hwflags, config_ok |-> config_ok,
                    i |-> 1, attempted |-> <<>>, nfailed |-> 0,
                    hwids_failed |-> FALSE, bios_failed |-> FALSE,
                    steps |-> ProgressSteps, done |-> 0,
                    ret |-> FALSE,
                    err |-> IF config_ok THEN NoError ELSE "config"]
        /\ pc' = load_hwinfo_after_config(config_ok)
        /\ UNCHANGED espVars
        /\ UNCHANGED hwVars

\* the same turn with a failure leaving the loop
hwids_setup_func_break(c, ok) ==
    LET e == hwids_setup_map[c.i] IN
    IF e.flag \in c.hwflags
    THEN IF ~ok
         THEN [c EXCEPT !.attempted = Append(@, e.name), !.nfailed = @ + 1,
                        !.i = Len(hwids_setup_map) + 1]
         ELSE [c EXCEPT !.attempted = Append(@, e.name), !.i = @ + 1]
    ELSE [c EXCEPT !.i = @ + 1]

\* one turn of the loop over hwids_setup_map
hwids_setup_func(c, ok) ==
    LET e == hwids_setup_map[c.i] IN
    IF e.flag \in c.hwflags
    THEN IF ~ok
         THEN [c EXCEPT !.attempted = Append(@, e.name), !.nfailed = @ + 1, !.i = @ + 1]
         ELSE [c EXCEPT !.attempted = Append(@, e.name), !.i = @ + 1]
    ELSE [c EXCEPT !.i = @ + 1]

\* the same test with the loop over at any entry
hwids_setup_map_end_any(c) == TRUE

\* the loop ends at the entry whose name is NULL
hwids_setup_map_end(c) == c.i > Len(hwids_setup_map)

LoadHwinfoSetupFunc ==
    \E ok \in BOOLEAN :
        /\ pc = "hwids-setup-funcs"
        /\ ~hwids_setup_map_end(call)
        /\ LET e == hwids_setup_map[call.i]
               run == e.flag \in call.hwflags
           IN /\ hwids' = IF run THEN ProbeHwids(hwids, e.name, ok) ELSE hwids
              /\ smbios' = IF run THEN ProbeSmbios(smbios, e.name, ok) ELSE smbios
        /\ UNCHANGED miscVars
        /\ call' = hwids_setup_func(call, ok)
        /\ UNCHANGED espVars
        /\ UNCHANGED <<flags, quirks, hwid_flags, udev_subsystems, host_bios_settings, pc>>

\* after the loop: the flag is set and the first step is done
LoadHwinfoLoaded ==
    /\ pc = "hwids-setup-funcs"
    /\ hwids_setup_map_end(call)
    /\ flags' = fu_context_add_flag(flags, {LOADED_HWINFO})
    /\ UNCHANGED miscVars
    /\ call' = fu_progress_step_done(call)
    /\ pc' = "hwids-setup"
    /\ UNCHANGED espVars
    /\ UNCHANGED <<hwids, smbios, quirks, hwid_flags, udev_subsystems, host_bios_settings>>

\* the same step finished only when fu_hwids_setup succeeded
hwids_setup_step_done_on_success(c, ok) ==
    IF ok THEN fu_progress_step_done([c EXCEPT !.hwids_failed = FALSE])
    ELSE [c EXCEPT !.hwids_failed = TRUE]

\* fu_hwids_setup, its failure warned about, and the step finished either way
hwids_setup_step_done(c, ok) ==
    fu_progress_step_done([c EXCEPT !.hwids_failed = ~ok])

LoadHwinfoHwidsSetup ==
    \E ok \in BOOLEAN :
        /\ pc = "hwids-setup"
        /\ hwids' = fu_hwids_setup(hwids, ok)
        /\ UNCHANGED miscVars
        /\ call' = hwids_setup_step_done(call, ok)
        /\ pc' = "set-flags"
        /\ UNCHANGED espVars
        /\ UNCHANGED <<flags, smbios, quirks, hwid_flags, udev_subsystems,
                       host_bios_settings>>

\* the elements of a sequence, as a set
hwid_flags_add_all(hf, values) == hf \cup {values[j] : j \in 1..Len(values)}

\* the same callback adding the value whole, without the split
fu_context_hwid_quirk_cb_whole(hf, value) ==
    IF value # NULL THEN hwid_flags_add_all(hf, g_strsplit(value[1], ";")) ELSE hf

\* fu_context_hwid_quirk_cb over every GUID that has a Flags quirk
fu_context_hwid_quirk_cb(hf, value) ==
    IF value # NULL THEN hwid_flags_add_all(hf, g_strsplit(value[1], ",")) ELSE hf

RECURSIVE SetHwidFlags(_, _, _)
SetHwidFlags(hf, guids, i) ==
    IF i > Len(guids) THEN hf
    ELSE SetHwidFlags(IF quirks /\ QuirkFlagsOf(guids[i]) # NULL
                      THEN fu_context_hwid_quirk_cb(hf, QuirkFlagsOf(guids[i]))
                      ELSE hf,
                      guids, i + 1)

LoadHwinfoSetFlags ==
    /\ pc = "set-flags"
    /\ fu_context_get_hwid_guids.ret # NULL
    /\ hwid_flags' = SetHwidFlags(hwid_flags, fu_context_get_hwid_guids.ret[1], 1)
    /\ UNCHANGED miscVars
    /\ call' = fu_progress_step_done(call)
    /\ pc' = "detect-fde"
    /\ UNCHANGED espVars
    /\ UNCHANGED <<flags, hwids, smbios, quirks, udev_subsystems, host_bios_settings>>

\* devices: NULL when the block devices cannot be listed, else what they hold
BlockDeviceKinds == {"BitLocker", "ubuntu-data-enc"}
fu_context_detect_full_disk_encryption(f, devices) ==
    IF devices = NULL THEN f
    ELSE f \cup (IF "BitLocker" \in devices[1] THEN {FDE_BITLOCKER} ELSE {})
           \cup (IF "ubuntu-data-enc" \in devices[1] THEN {FDE_SNAPD} ELSE {})

LoadHwinfoDetectFde ==
    \E devices \in {NULL} \cup {Ptr(d) : d \in SUBSET BlockDeviceKinds} :
        /\ pc = "detect-fde"
        /\ flags' = fu_context_detect_full_disk_encryption(flags, devices)
        /\ UNCHANGED miscVars
        /\ call' = fu_progress_step_done(call)
        /\ pc' = "reload-bios-settings"
        /\ UNCHANGED espVars
        /\ UNCHANGED <<hwids, smbios, quirks, hwid_flags, udev_subsystems,
                       host_bios_settings>>

\* what the call returns after fu_context_reload_bios_settings: TRUE, "always"
load_hwinfo_return_reload(ok) == ok
load_hwinfo_return(ok) == TRUE

\* the last step, and the return
LoadHwinfoReloadBios ==
    \E ok \in BOOLEAN :
        /\ pc = "reload-bios-settings"
        /\ udev_subsystems' =
               fu_context_add_udev_subsystem(udev_subsystems, <<"firmware-attributes">>, NULL)
        /\ host_bios_settings' = (host_bios_settings \/ ok)
        /\ UNCHANGED miscVars
        /\ call' = fu_progress_step_done([call EXCEPT !.bios_failed = ~ok,
                                                       !.ret = load_hwinfo_return(ok)])
        /\ pc' = "idle"
        /\ UNCHANGED espVars
        /\ UNCHANGED <<flags, hwids, smbios, quirks, hwid_flags>>

(***************************************************************************)
(* The hardware-info specification                                         *)
(***************************************************************************)
HwFlagMasks == {{LOADED_HWINFO}}

Init ==
    /\ flags = {}
    /\ hwids = [values |-> {}, guids |-> <<>>]
    /\ smbios = {}
    /\ quirks = FALSE
    /\ hwid_flags = {}
    /\ udev_subsystems = <<>>
    /\ host_bios_settings = FALSE
    /\ esp_volumes = <<>>
    /\ esp_location = NULL
    /\ env_esp_path = NULL
    /\ discovered = FALSE
    /\ power_state = FU_POWER_STATE_UNKNOWN
    /\ lid_state = FU_LID_STATE_UNKNOWN
    /\ display_state = FU_DISPLAY_STATE_UNKNOWN
    /\ battery_level = FWUPD_BATTERY_LEVEL_INVALID
    /\ battery_threshold = FWUPD_BATTERY_LEVEL_INVALID
    /\ backends = <<>>
    /\ fdt = NULL
    /\ fdt_files = [local |-> NoFile, sys |-> NoFile]
    /\ pc = "idle"
    /\ call = [op |-> "new"]

\* fu_context_has_hwid_flag: not gated by LOADED_HWINFO
HwidFlagNames == {"use-legacy-bootmgr-desc", "no-ux-capsule", "other-flag",
                  "use-legacy-bootmgr-desc,no-ux-capsule"}
fu_context_has_hwid_flag(hf, flag) == flag \in hf

HasHwidFlag ==
    \E flag \in HwidFlagNames :
        /\ pc = "idle"
        /\ call' = [op |-> "has_hwid_flag", arg |-> flag,
                    ret |-> fu_context_has_hwid_flag(hwid_flags, flag)]
        /\ UNCHANGED <<hwVars, espVars, miscVars, pc>>

NextHw ==
    \/ LoadHwinfoBegin
    \/ LoadHwinfoSetupFunc
    \/ LoadHwinfoLoaded
    \/ LoadHwinfoHwidsSetup
    \/ LoadHwinfoSetFlags
    \/ LoadHwinfoDetectFde
    \/ LoadHwinfoReloadBios
    \/ LoadQuirks
    \/ AddFlag(HwFlagMasks)
    \/ RemoveFlag(HwFlagMasks)
    \/ HasHwidGuid
    \/ HasHwidFlag
    \/ GetHwidGuids
    \/ GetHwidValue
    \/ GetHwidReplaceValue
    \/ GetSmbiosString
    \/ GetSmbiosData
    \/ GetSmbiosInteger

SpecHw == Init /\ [][NextHw]_vars

(***************************************************************************)
(* Properties of the hardware-info pipeline, checked under SpecHw          *)
(***************************************************************************)
GatedAccessors ==
    {"has_hwid_guid", "get_hwid_guids", "get_hwid_value", "get_hwid_replace_value",
     "get_smbios_string", "get_smbios_data", "get_smbios_integer"}

\* the value an accessor returns when it refuses to answer
FailureSentinel(op) ==
    CASE op = "has_hwid_guid" -> FALSE
      [] op = "get_smbios_integer" -> G_MAXUINT
      [] OTHER -> NULL

\* C1: while LOADED_HWINFO is not set, a gated accessor returns its failure
\* sentinel (FALSE, NULL or G_MAXUINT) and does not go to the HWID or SMBIOS
\* store, whatever the store holds.
C1_GatedAccessorsRefuse ==
    (call.op \in GatedAccessors /\ LOADED_HWINFO \notin flags)
        => (call.ret = FailureSentinel(call.op) /\ ~call.consulted)

\* C1 witness: an accessor was called with the flag unset while both stores
\* hold data it would otherwise have answered from.
C1_Witness ==
    /\ call.op = "get_smbios_integer"
    /\ call.arg \in smbios
    /\ hwids.values # {}
    /\ LOADED_HWINFO \notin flags
    /\ call.ret = G_MAXUINT

LoadHwinfoReturned == call.op = "load_hwinfo" /\ pc = "idle"

\* C2: when the config load succeeds, load_hwinfo returns TRUE and leaves
\* LOADED_HWINFO set, whichever setup functions were selected and whichever of
\* them failed, and also when fu_hwids_setup or the BIOS-settings reload fails.
C2_LoadHwinfoSucceeds ==
    (LoadHwinfoReturned /\ call.config_ok)
        => (call.ret = TRUE /\ LOADED_HWINFO \in flags)

\* C2 witness: a call with all six setup functions selected and all six
\* failing, fu_hwids_setup failing and the BIOS-settings reload failing.
C2_Witness ==
    /\ LoadHwinfoReturned
    /\ call.config_ok
    /\ call.hwflags = FuContextHwidFlags
    /\ call.nfailed = Len(hwids_setup_map)
    /\ call.hwids_failed
    /\ call.bios_failed
    /\ call.ret = TRUE
    /\ LOADED_HWINFO \in flags

\* the names of the first n entries of hwids_setup_map whose flag is in hwflags
RECURSIVE SelectedSetupFuncs(_, _)
SelectedSetupFuncs(hwflags, n) ==
    IF n = 0 THEN <<>>
    ELSE SelectedSetupFuncs(hwflags, n - 1)
            \o (IF hwids_setup_map[n].flag \in hwflags
                THEN <<hwids_setup_map[n].name>> ELSE <<>>)

\* C3: the setup functions attempted by a call are exactly the selected ones
\* among the entries the loop has passed, each once and in map order, however
\* many of them failed: a failure never stops the loop.
C3_EverySelectedProbeAttemptedOnce ==
    (call.op = "load_hwinfo" /\ call.config_ok)
        => call.attempted = SelectedSetupFuncs(call.hwflags, call.i - 1)

\* C3 witness: the loop has ended, several functions were selected, every one
\* of them failed, and every one of them was attempted.
C3_Witness ==
    /\ call.op = "load_hwinfo"
    /\ call.config_ok
    /\ call.i > Len(hwids_setup_map)
    /\ Len(call.attempted) >= 3
    /\ call.nfailed = Len(call.attempted)
    /\ call.attempted = SelectedSetupFuncs(call.hwflags, Len(hwids_setup_map))

(***************************************************************************)
(* ESP volumes.  A FuVolume is a record of what the Context asks of it:    *)
(*   id, kind, fstype (fu_volume_get_id_type), internal, size in KiB,      *)
(*   mountable (fu_volume_locker succeeds), mount_point, efi_dir (a        *)
(*   top-level EFI or efi directory), files (what fu_path_get_files gives  *)
(*   for the mount point: NULL when it fails, else the basenames, each cut *)
(*   into pieces as <<"shim", "x64", ".efi">>), dp (its hard-drive device  *)
(*   path, NULL when none can be built).                                   *)
(***************************************************************************)
FU_VOLUME_KIND_ESP == "c12a7328-f81f-11d2-ba4b-00a0c93ec93b"
FU_VOLUME_KIND_BDP == "ebd0a0a2-b9e5-4433-87c0-68b6b72699c7"

Volume(id, kind, fstype, internal, size) ==
    [id |-> id, kind |-> kind, fstype |-> fstype, internal |-> internal, size |-> size,
     mountable |-> TRUE, mount_point |-> Ptr("/run/media/" \o id), efi_dir |-> TRUE,
     files |-> Ptr(<<>>), dp |-> Ptr("HD-" \o id)]

\* the volumes the block-device service can report
Sda1Esp == Volume("sda1", FU_VOLUME_KIND_ESP, "vfat", TRUE, 102400)
Sdb1Esp ==
    [Volume("sdb1", FU_VOLUME_KIND_ESP, "vfat", FALSE, 524288)
         EXCEPT !.files = Ptr(<<<<"shim", "x64", ".efi">>>>)]
Sdc1EspExt4 == Volume("sdc1", FU_VOLUME_KIND_ESP, "ext4", TRUE, 204800)
Sda1Bdp == Volume("sda1", FU_VOLUME_KIND_BDP, "vfat", TRUE, 1048576)
Sdc1Bdp == [Volume("sdc1", FU_VOLUME_KIND_BDP, "vfat", TRUE, 2097152) EXCEPT !.efi_dir = FALSE]
Sdc1BdpRemovable == Volume("sdc1", FU_VOLUME_KIND_BDP, "vfat", FALSE, 307200)
Sdb1BdpExt4 ==
    [Volume("sdb1", FU_VOLUME_KIND_BDP, "ext4", TRUE, 409600) EXCEPT !.mountable = FALSE]

EspUniverse ==
    {Sda1Esp, Sdb1Esp, Sdc1EspExt4, Sda1Bdp, Sdc1Bdp, Sdc1BdpRemovable, Sdb1BdpExt4}

\* the most volumes the platform lists during one call, both kinds together
MaxWorld == 2

RECURSIVE SeqsUpTo(_, _)
SeqsUpTo(S, n) ==
    IF n = 0 THEN {<<>>}
    ELSE LET shorter == SeqsUpTo(S, n - 1)
         IN shorter \cup {Append(q, x) : q \in {t \in shorter : Len(t) = n - 1}, x \in S}

\* what the platform answers during one call: what fu_volume_new_by_kind
\* gives for each kind (NULL when it fails, else the volumes of that kind in
\* the order listed) and whether fu_common_get_block_devices works, which is
\* asked only when no listed volume can be used
KindVolumes(kind) == {v \in EspUniverse : v.kind = kind}
KindAnswers(kind) == {NULL} \cup {Ptr(q) : q \in SeqsUpTo(KindVolumes(kind), MaxWorld)}
AnswerLen(answer) == IF answer = NULL THEN 0 ELSE Len(answer[1])
BlockDevicesAsked(w) ==
    /\ w.esp # NULL => \A i \in 1..Len(w.esp[1]) : w.esp[1][i].fstype # "vfat"
    /\ w.bdp # NULL => \A i \in 1..Len(w.bdp[1]) :
                           w.bdp[1][i].fstype # "vfat" \/ ~w.bdp[1][i].internal
Worlds ==
    {w \in [esp : KindAnswers(FU_VOLUME_KIND_ESP), bdp : KindAnswers(FU_VOLUME_KIND_BDP),
            blockdev_ok : BOOLEAN] :
         /\ AnswerLen(w.esp) + AnswerLen(w.bdp) <= MaxWorld
         /\ ~w.blockdev_ok => BlockDevicesAsked(w)}

\* the platform is not asked anything
NoWorld == [esp |-> NULL, bdp |-> NULL, blockdev_ok |-> FALSE]

fu_volume_new_by_kind(w, kind) ==
    IF kind = FU_VOLUME_KIND_ESP THEN w.esp ELSE w.bdp

\* fu_volume_new_from_mount_path with the kind and partition UUID set: the
\* volume made for FWUPD_UEFI_ESP_PATH; it has no device behind it
NoVolumeId == "(null)"
\* the same volume without fu_volume_set_partition_kind
EnvVolumeNoKind(path) ==
    [id |-> NoVolumeId, kind |-> "(null)", fstype |-> "(null)", internal |-> FALSE,
     size |-> 0, mountable |-> TRUE, mount_point |-> Ptr(path), efi_dir |-> TRUE,
     files |-> Ptr(<<>>), dp |-> NULL]

EnvVolume(path) ==
    [id |-> NoVolumeId, kind |-> FU_VOLUME_KIND_ESP, fstype |-> "(null)", internal |-> FALSE,
     size |-> 0, mountable |-> TRUE, mount_point |-> Ptr(path), efi_dir |-> TRUE,
     files |-> Ptr(<<>>), dp |-> NULL]

\* the same function replacing the cached volume of the same id
fu_context_add_esp_volume_replace(cache, volume) ==
    IF \E i \in 1..Len(cache) : cache[i].id = volume.id
    THEN [i \in 1..Len(cache) |-> IF cache[i].id = volume.id THEN volume ELSE cache[i]]
    ELSE Append(cache, volume)

fu_context_add_esp_volume(cache, volume) ==
    IF \E i \in 1..Len(cache) : cache[i].id = volume.id
    THEN cache
    ELSE Append(cache, volume)

\* the two enumeration loops: add every volume of the list that passes
RECURSIVE AddEspVolumes(_, _, _, _)
AddEspVolumes(cache, vols, i, bdp) ==
    IF i > Len(vols) THEN cache
    ELSE LET vol == vols[i]
             skip == vol.fstype # "vfat" \/ (bdp /\ ~vol.internal)
         IN AddEspVolumes(IF skip THEN cache ELSE fu_context_add_esp_volume(cache, vol),
                          vols, i + 1, bdp)

\* the enumeration with the two loops in one, BDP volumes not tested for internal
fu_context_enumerate_esp_volumes_any_bdp(cache, w) ==
    LET volumes_esp == fu_volume_new_by_kind(w, FU_VOLUME_KIND_ESP)
        with_esp == IF volumes_esp = NULL THEN cache
                    ELSE AddEspVolumes(cache, volumes_esp[1], 1, FALSE)
        volumes_bdp == fu_volume_new_by_kind(w, FU_VOLUME_KIND_BDP)
    IN IF volumes_bdp = NULL THEN with_esp
       ELSE AddEspVolumes(with_esp, volumes_bdp[1], 1, FALSE)

\* the ESP pass and then the BDP pass of fu_context_get_esp_volumes
fu_context_enumerate_esp_volumes(cache, w) ==
    LET volumes_esp == fu_volume_new_by_kind(w, FU_VOLUME_KIND_ESP)
        with_esp == IF volumes_esp = NULL THEN cache
                    ELSE AddEspVolumes(cache, volumes_esp[1], 1, FALSE)
        volumes_bdp == fu_volume_new_by_kind(w, FU_VOLUME_KIND_BDP)
    IN IF volumes_bdp = NULL THEN with_esp
       ELSE AddEspVolumes(with_esp, volumes_bdp[1], 1, TRUE)

\* the test that guards the cache: is there a cached result to return?
esp_volumes_cached_one(cache) == Len(cache) > 1
esp_volumes_cached(cache) == Len(cache) > 0

\* the error of a call that found nothing: its code and its message; the
\* error of fu_common_get_block_devices is kept by the name of its origin
BlockDevicesError == [err |-> "fu_common_get_block_devices", msg |-> "(block devices)"]
NoCandidateError == [err |-> "FWUPD_ERROR_NOT_FOUND", msg |-> "No ESP or BDP found"]
NoMessage == "(none)"

\* the same step without the probe of the block devices
esp_volumes_nothing_found_masked(w) == NoCandidateError
esp_volumes_nothing_found(w) ==
    IF ~w.blockdev_ok THEN BlockDevicesError ELSE NoCandidateError

\* fu_context_get_esp_volumes: the cache after the call, the array returned
\* (the cache itself, NULL on failure), the error, and what the call did
fu_context_get_esp_volumes(cache, env, w) ==
    IF esp_volumes_cached(cache)
    THEN [cache |-> cache, ret |-> Ptr(cache), err |-> NoError, msg |-> NoMessage,
          env_lookup |-> FALSE, enumerated |-> FALSE, blockdev |-> FALSE]
    ELSE IF env # NULL
    THEN LET added == fu_context_add_esp_volume(cache, EnvVolume(env[1]))
         IN [cache |-> added, ret |-> Ptr(added), err |-> NoError, msg |-> NoMessage,
             env_lookup |-> TRUE, enumerated |-> FALSE, blockdev |-> FALSE]
    ELSE LET found == fu_context_enumerate_esp_volumes(cache, w)
         IN IF Len(found) = 0
            THEN [cache |-> found, ret |-> NULL, err |-> esp_volumes_nothing_found(w).err,
                  msg |-> esp_volumes_nothing_found(w).msg,
                  env_lookup |-> TRUE, enumerated |-> TRUE, blockdev |-> TRUE]
            ELSE [cache |-> found, ret |-> Ptr(found), err |-> NoError, msg |-> NoMessage,
                  env_lookup |-> TRUE, enumerated |-> TRUE, blockdev |-> FALSE]

\* the platform matters to a call only when the cache is empty and the
\* environment variable is unset: only then is it offered every answer
WorldsFor(cache, env) ==
    IF ~esp_volumes_cached(cache) /\ env = NULL THEN Worlds ELSE {NoWorld}

AddEspVolume(volumes) ==
    \E volume \in volumes :
        /\ pc = "idle"
        /\ esp_volumes' = fu_context_add_esp_volume(esp_volumes, volume)
        /\ UNCHANGED miscVars
        /\ call' = [op |-> "add_esp_volume", volume |-> volume]
        /\ UNCHANGED <<flags, storeVars, esp_location, env_esp_path, discovered, pc>>

GetEspVolumes ==
    \E w \in WorldsFor(esp_volumes, env_esp_path) :
        LET r == fu_context_get_esp_volumes(esp_volumes, env_esp_path, w) IN
        /\ pc = "idle"
        /\ esp_volumes' = r.cache
        /\ discovered' = (discovered \/ r.ret # NULL)
        /\ UNCHANGED miscVars
        /\ call' = [op |-> "get_esp_volumes", world |-> w, ret |-> r.ret, err |-> r.err,
                    msg |-> r.msg, env_lookup |-> r.env_lookup,
                    enumerated |-> r.enumerated, blockdev |-> r.blockdev,
                    after_discovery |-> discovered,
                    after_failure |-> (/\ r.ret # NULL
                                       /\ call.op = "get_esp_volumes"
                                       /\ call.ret = NULL)]
        /\ UNCHANGED <<flags, storeVars, esp_location, env_esp_path, pc>>

\* the environment variable is set or unset between two calls
EspPaths == {"/tmp/esp"}
SetEnv ==
    \E path \in {NULL} \cup {Ptr(x) : x \in EspPaths} :
        /\ pc = "idle"
        /\ env_esp_path' = path
        /\ UNCHANGED miscVars
        /\ call' = [op |-> "setenv", arg |-> path]
        /\ UNCHANGED <<flags, storeVars, esp_volumes, esp_location, discovered, pc>>

(***************************************************************************)
(* fu_context_get_default_esp                                              *)
(***************************************************************************)
EspKindBonus == 131072      \* 0x20000
EspLinuxBonus == 65536      \* 0x10000
KiBPerMiB == 1024

\* g_utf8_strdown, piece by piece
Lower(piece) ==
    CASE piece = "GRUB" -> "grub"
      [] piece = "SHIM" -> "shim"
      [] piece = "X64" -> "x64"
      [] piece = ".EFI" -> ".efi"
      [] OTHER -> piece
LinuxPrefixes == {"grub", "shim", "systemd-boot", "zfsbootmenu"}

fu_context_is_esp(esp) ==
    IF esp.mount_point = NULL THEN FALSE ELSE esp.efi_dir

\* fu_path_get_files for the mount point
VolumeFiles(esp) == esp.files

\* g_str_has_prefix and g_str_has_suffix of a name cut into pieces: the
\* pieces are cut where the prefixes and the suffix asked for end and begin
HasPrefix(name, prefix) == Len(name) > 0 /\ name[1] = prefix
HasSuffix(name, suffix) == Len(name) > 0 /\ name[Len(name)] = suffix
LowerName(name) == [k \in 1..Len(name) |-> Lower(name[k])]

\* the same test on the names as they are, not lower-cased
fu_context_is_esp_linux_cased(esp) ==
    IF esp.mount_point = NULL THEN FALSE
    ELSE IF VolumeFiles(esp) = NULL THEN FALSE
    ELSE \E i \in 1..Len(VolumeFiles(esp)[1]) : \E prefix \in LinuxPrefixes :
             /\ HasPrefix(VolumeFiles(esp)[1][i], prefix)
             /\ HasSuffix(VolumeFiles(esp)[1][i], ".efi")

fu_context_is_esp_linux(esp) ==
    IF esp.mount_point = NULL THEN FALSE
    ELSE IF VolumeFiles(esp) = NULL THEN FALSE
    ELSE \E i \in 1..Len(VolumeFiles(esp)[1]) : \E prefix \in LinuxPrefixes :
             /\ HasPrefix(LowerName(VolumeFiles(esp)[1][i]), prefix)
             /\ HasSuffix(LowerName(VolumeFiles(esp)[1][i]), ".efi")

\* the locker is taken, the user's location matches, and it looks like an ESP
EspSurvives(esp, user_esp_location) ==
    /\ esp.mountable
    /\ user_esp_location # NULL => esp.mount_point = user_esp_location
    /\ fu_context_is_esp(esp)

\* the score without the bonus of the Linux heuristic
EspScoreNoLinux(esp) ==
    (esp.size \div KiBPerMiB)
    + (IF esp.kind = FU_VOLUME_KIND_ESP THEN EspKindBonus ELSE 0)

EspScore(esp) ==
    (esp.size \div KiBPerMiB)
    + (IF esp.kind = FU_VOLUME_KIND_ESP THEN EspKindBonus ELSE 0)
    + (IF fu_context_is_esp_linux(esp) THEN EspLinuxBonus ELSE 0)

\* esp_scores: the indices of the array that got a score, and the lookup that
\* fu_context_sort_esp_score_cb makes, 0 for a volume without one
EspScored(volumes, user_esp_location) ==
    {i \in 1..Len(volumes) : EspSurvives(volumes[i], user_esp_location)}
EspScoreLookup(volumes, user_esp_location, i) ==
    IF i \in EspScored(volumes, user_esp_location) THEN EspScore(volumes[i]) ELSE 0

\* g_ptr_array_sort_with_data with fu_context_sort_esp_score_cb: a stable
\* sort of the array, highest score first; order is a sequence of indices
RECURSIVE SortEspOrder(_, _, _)
SortEspOrder(order, score, i) ==
    IF i > Len(score) THEN order
    ELSE LET before == {j \in 1..Len(order) : score[order[j]] >= score[i]}
             k == Cardinality(before)
         IN SortEspOrder(SubSeq(order, 1, k) \o <<i>> \o SubSeq(order, k + 1, Len(order)),
                         score, i + 1)

\* the same sort keeping only the volumes that got a score
fu_context_sort_esp_volumes_scored(volumes, user_esp_location) ==
    LET scored == SelectSeq(volumes, LAMBDA v : EspSurvives(v, user_esp_location))
        score == [i \in 1..Len(scored) |-> EspScore(scored[i])]
        order == SortEspOrder(<<>>, score, 1)
    IN [k \in 1..Len(scored) |-> scored[order[k]]]

fu_context_sort_esp_volumes(volumes, user_esp_location) ==
    LET score == [i \in 1..Len(volumes) |-> EspScoreLookup(volumes, user_esp_location, i)]
        order == SortEspOrder(<<>>, score, 1)
    IN [k \in 1..Len(volumes) |-> volumes[order[k]]]

\* esp_scores as the loop leaves it: for each volume of the array NULL when
\* it got no score, else Ptr(score)
EspScores(volumes, user_esp_location) ==
    [i \in 1..Len(volumes) |->
        IF EspSurvives(volumes[i], user_esp_location) THEN Ptr(EspScore(volumes[i]))
        ELSE NULL]

\* g_autoptr(FuDeviceLocker): what a call does to the mounts is a sequence
\* of events; the locker of a volume is released when its scope is left, by
\* "continue", by "return" or at its "end"
MountEvent(esp) == [ev |-> "mount", id |-> esp.id]
UnmountEvent(esp) == [ev |-> "unmount", id |-> esp.id]

\* a locker released only where the end of its scope is reached
g_autoptr_locker_at_end(esp, exit) ==
    IF exit = "end" THEN <<UnmountEvent(esp)>> ELSE <<>>
g_autoptr_locker(esp, exit) == <<UnmountEvent(esp)>>

\* one pass of the scoring loop
EspCandidateExit(esp, user_esp_location) ==
    IF user_esp_location # NULL /\ esp.mount_point # user_esp_location THEN "continue"
    ELSE IF ~fu_context_is_esp(esp) THEN "continue"
    ELSE "end"
EspCandidateEvents(esp, user_esp_location) ==
    IF ~esp.mountable THEN <<>>
    ELSE <<MountEvent(esp)>> \o g_autoptr_locker(esp, EspCandidateExit(esp, user_esp_location))
RECURSIVE EspLoopEvents(_, _, _)
EspLoopEvents(volumes, user_esp_location, i) ==
    IF i > Len(volumes) THEN <<>>
    ELSE EspCandidateEvents(volumes[i], user_esp_location)
         \o EspLoopEvents(volumes, user_esp_location, i + 1)

\* more than one volume: score, sort the array, return its first element
fu_context_get_default_esp_best(volumes, user_esp_location) ==
    IF EspScored(volumes, user_esp_location) = {}
    THEN [cache |-> volumes, ret |-> NULL, err |-> "FWUPD_ERROR_NOT_SUPPORTED",
          msg |-> "no EFI system partition found",
          scores |-> EspScores(volumes, user_esp_location),
          events |-> EspLoopEvents(volumes, user_esp_location, 1)]
    ELSE [cache |-> fu_context_sort_esp_volumes(volumes, user_esp_location),
          ret |-> Ptr(fu_context_sort_esp_volumes(volumes, user_esp_location)[1]),
          err |-> NoError, msg |-> NoMessage,
          scores |-> EspScores(volumes, user_esp_location),
          events |-> EspLoopEvents(volumes, user_esp_location, 1)]

\* the same block testing that the volume looks like an ESP as well
fu_context_get_default_esp_single_is_esp(volumes, user_esp_location) ==
    IF ~volumes[1].mountable
    THEN [cache |-> volumes, ret |-> NULL, err |-> "mount", msg |-> "(mount)",
          scores |-> <<>>, events |-> <<>>]
    ELSE IF (user_esp_location # NULL /\ volumes[1].mount_point # user_esp_location)
            \/ ~fu_context_is_esp(volumes[1])
    THEN [cache |-> volumes, ret |-> NULL, err |-> "FWUPD_ERROR_NOT_SUPPORTED",
          msg |-> "user specified ESP not found", scores |-> <<>>,
          events |-> <<MountEvent(volumes[1])>> \o g_autoptr_locker(volumes[1], "return")]
    ELSE [cache |-> volumes, ret |-> Ptr(volumes[1]), err |-> NoError, msg |-> NoMessage,
          scores |-> <<>>,
          events |-> <<MountEvent(volumes[1])>> \o g_autoptr_locker(volumes[1], "end")]

\* exactly one volume: it has to mount and to be where the user said
fu_context_get_default_esp_single(volumes, user_esp_location) ==
    IF ~volumes[1].mountable
    THEN [cache |-> volumes, ret |-> NULL, err |-> "mount", msg |-> "(mount)",
          scores |-> <<>>, events |-> <<>>]
    ELSE IF user_esp_location # NULL /\ volumes[1].mount_point # user_esp_location
    THEN [cache |-> volumes, ret |-> NULL, err |-> "FWUPD_ERROR_NOT_SUPPORTED",
          msg |-> "user specified ESP not found", scores |-> <<>>,
          events |-> <<MountEvent(volumes[1])>> \o g_autoptr_locker(volumes[1], "return")]
    ELSE [cache |-> volumes, ret |-> Ptr(volumes[1]), err |-> NoError, msg |-> NoMessage,
          scores |-> <<>>,
          events |-> <<MountEvent(volumes[1])>> \o g_autoptr_locker(volumes[1], "end")]

\* the call once the volumes are there: r is what fu_context_get_esp_volumes
\* gave, d what the block for its length decided
EspDefaultResult(r, d) ==
    [cache |-> d.cache, ret |-> d.ret, err |-> d.err, msg |-> d.msg,
     enumerated |-> r.enumerated, found |-> TRUE, candidates |-> r.cache,
     scores |-> d.scores, events |-> d.events]
fu_context_get_default_esp_from(r, f, user_esp_location) ==
    IF r.ret = NULL
    THEN [cache |-> r.cache, ret |-> NULL, err |-> r.err, msg |-> r.msg,
          enumerated |-> r.enumerated, found |-> FALSE, candidates |-> <<>>,
          scores |-> <<>>, events |-> <<>>]
    ELSE IF INHIBIT_VOLUME_MOUNT \in f
    THEN [cache |-> r.cache, ret |-> NULL, err |-> "FWUPD_ERROR_NOT_SUPPORTED",
          msg |-> "cannot mount volume by policy",
          enumerated |-> r.enumerated, found |-> TRUE, candidates |-> r.cache,
          scores |-> <<>>, events |-> <<>>]
    ELSE IF Len(r.cache) > 1
    THEN EspDefaultResult(r, fu_context_get_default_esp_best(r.cache, user_esp_location))
    ELSE EspDefaultResult(r, fu_context_get_default_esp_single(r.cache, user_esp_location))

\* the call: the cache after it, the volume returned (NULL on failure), the
\* error, and what the call did: whether it enumerated, the candidates it had,
\* their scores, its mount events; inhibit: mounting is inhibited by policy
fu_context_get_default_esp(cache, f, user_esp_location, env, w) ==
    fu_context_get_default_esp_from(fu_context_get_esp_volumes(cache, env, w), f,
                                    user_esp_location)

GetDefaultEsp ==
    \E w \in WorldsFor(esp_volumes, env_esp_path) :
        LET r == fu_context_get_default_esp(esp_volumes, flags, esp_location,
                                            env_esp_path, w) IN
        /\ pc = "idle"
        /\ esp_volumes' = r.cache
        /\ discovered' = (discovered \/ r.found)
        /\ UNCHANGED miscVars
        /\ call' = [op |-> "get_default_esp", ret |-> r.ret, err |-> r.err, msg |-> r.msg,
                    enumerated |-> r.enumerated, candidates |-> r.candidates,
                    inhibit |-> INHIBIT_VOLUME_MOUNT \in flags,
                    scores |-> r.scores, events |-> r.events]
        /\ UNCHANGED <<flags, storeVars, esp_location, env_esp_path, pc>>

SetEspLocation(paths) ==
    \E location \in paths :
        /\ pc = "idle"
        /\ esp_location' = Ptr(location)
        /\ UNCHANGED miscVars
        /\ call' = [op |-> "set_esp_location", arg |-> location]
        /\ UNCHANGED <<flags, storeVars, esp_volumes, env_esp_path, discovered, pc>>

(***************************************************************************)
(* fu_context_get_esp_volume_by_hard_drive_device_path                     *)
(***************************************************************************)
\* the same lookup going on after a match, so that the last match is returned
fu_context_get_esp_volume_by_hard_drive_device_path_last(cache, env, w, dp) ==
    LET r == fu_context_get_esp_volumes(cache, env, w)
        match == {i \in 1..Len(r.cache) : r.cache[i].dp # NULL /\ r.cache[i].dp[1] = dp}
        out(ret, err) == [cache |-> r.cache, ret |-> ret, err |-> err,
                          enumerated |-> r.enumerated, found |-> r.ret # NULL,
                          volumes_err |-> r.err]
    IN IF r.ret = NULL THEN out(NULL, r.err)
       ELSE IF match = {} THEN out(NULL, "FWUPD_ERROR_NOT_FOUND")
       ELSE out(Ptr(r.cache[CHOOSE i \in match : \A j \in match : i >= j]), NoError)

\* a volume whose device path cannot be built (dp = NULL) is passed over
fu_context_get_esp_volume_by_hard_drive_device_path(cache, env, w, dp) ==
    LET r == fu_context_get_esp_volumes(cache, env, w)
        match == {i \in 1..Len(r.cache) : r.cache[i].dp # NULL /\ r.cache[i].dp[1] = dp}
        out(ret, err) == [cache |-> r.cache, ret |-> ret, err |-> err,
                          enumerated |-> r.enumerated, found |-> r.ret # NULL,
                          volumes_err |-> r.err]
    IN IF r.ret = NULL THEN out(NULL, r.err)
       ELSE IF match = {} THEN out(NULL, "FWUPD_ERROR_NOT_FOUND")
       ELSE out(Ptr(r.cache[CHOOSE i \in match : \A j \in match : i <= j]), NoError)

DevicePaths == {"HD-sda1", "HD-none"}

GetEspVolumeByHardDriveDevicePath ==
    \E w \in WorldsFor(esp_volumes, env_esp_path), dp \in DevicePaths :
        LET r == fu_context_get_esp_volume_by_hard_drive_device_path(
                     esp_volumes, env_esp_path, w, dp) IN
        /\ pc = "idle"
        /\ esp_volumes' = r.cache
        /\ discovered' = (discovered \/ r.found)
        /\ UNCHANGED miscVars
        /\ call' = [op |-> "get_esp_volume_by_hard_drive_device_path", dp |-> dp,
                    ret |-> r.ret, err |-> r.err, enumerated |-> r.enumerated,
                    volumes_err |-> r.volumes_err]
        /\ UNCHANGED <<flags, storeVars, esp_location, env_esp_path, pc>>

(***************************************************************************)
(* fu_context_get_esp_files                                                *)
(***************************************************************************)
INCLUDE_FIRST_STAGE == "FU_CONTEXT_ESP_FILE_FLAG_INCLUDE_FIRST_STAGE"
INCLUDE_SECOND_STAGE == "FU_CONTEXT_ESP_FILE_FLAG_INCLUDE_SECOND_STAGE"
INCLUDE_REVOCATIONS == "FU_CONTEXT_ESP_FILE_FLAG_INCLUDE_REVOCATIONS"

\* fu_context_build_uefi_basename_for_arch("shim") of an x86_64 build
shim_name == "shimx64.efi"

\* a boot entry: its index, whether it has a device-path list, the hard-drive
\* and file-path nodes of the list (NULL when absent), the name the file-path
\* node gives, as the pieces it is made of (NULL when it cannot be read,
\* name_err being the error then),
\* and the state of each file on the volume: "ok" (a PE file), "absent",
\* "not-pe", "unsupported" or "unreadable"
LoadOption(idx, dp_list, hdd, path, name, first, second, revocations) ==
    [idx |-> idx, dp_list |-> dp_list, hdd |-> hdd, path |-> path, name |-> name,
     name_err |-> "FWUPD_ERROR_INVALID_DATA",
     load |-> [first |-> first, second |-> second, revocations |-> revocations]]

Boot0000 == LoadOption(0, TRUE, Ptr("HD-sda1"), TRUE, Ptr(<<"EFI/fedora/", shim_name>>), "ok", "ok", "ok")
Boot0001 == LoadOption(1, FALSE, NULL, FALSE, NULL, "ok", "ok", "ok")
Boot0002 == LoadOption(2, TRUE, Ptr("HD-none"), TRUE, Ptr(<<"EFI/fedora/", "grubx64.efi">>), "ok", "ok", "ok")
Boot0004 == LoadOption(4, TRUE, Ptr("HD-sda1"), TRUE, Ptr(<<"EFI/fedora/", "grubx64.efi">>),
                       "unreadable", "ok", "ok")

\* fu_firmware_parse_file on a file in the given state: NoError or the code
\* of the error
fu_firmware_parse_file(state) ==
    CASE state = "ok" -> NoError
      [] state = "absent" -> "FWUPD_ERROR_NOT_FOUND"
      [] state = "not-pe" -> "FWUPD_ERROR_INVALID_FILE"
      [] state = "unsupported" -> "FWUPD_ERROR_NOT_SUPPORTED"
      [] OTHER -> "FWUPD_ERROR_READ"

fu_context_esp_load_pe_file(state) == fu_firmware_parse_file(state)

\* the errors of a load that only skip the file
IgnoredLoadErrors == {"FWUPD_ERROR_NOT_SUPPORTED", "FWUPD_ERROR_INVALID_FILE"}

\* the same stage leaving the index of the file at its default
LoadStageNoIdx(entry, stage, s) ==
    IF fu_context_esp_load_pe_file(entry.load[stage]) = NoError
    THEN [files |-> Append(s.files, [idx |-> 0, stage |-> stage]),
          err |-> NoError, tried |-> Append(s.tried, stage)]
    ELSE IF fu_context_esp_load_pe_file(entry.load[stage]) \in IgnoredLoadErrors
    THEN [files |-> s.files, err |-> NoError, tried |-> Append(s.tried, stage)]
    ELSE [files |-> s.files, err |-> fu_context_esp_load_pe_file(entry.load[stage]),
          tried |-> Append(s.tried, stage)]

\* one stage of an entry after the stages that gave s: the load is tried,
\* a PE file is added with the index of the entry, an ignored error changes
\* nothing, another error ends the entry
LoadStage(entry, stage, s) ==
    IF fu_context_esp_load_pe_file(entry.load[stage]) = NoError
    THEN [files |-> Append(s.files, [idx |-> entry.idx, stage |-> stage]),
          err |-> NoError, tried |-> Append(s.tried, stage)]
    ELSE IF fu_context_esp_load_pe_file(entry.load[stage]) \in IgnoredLoadErrors
    THEN [files |-> s.files, err |-> NoError, tried |-> Append(s.tried, stage)]
    ELSE [files |-> s.files, err |-> fu_context_esp_load_pe_file(entry.load[stage]),
          tried |-> Append(s.tried, stage)]

\* the three stages of one entry, each run unless an earlier one ended the
\* entry; shim: the file name ends with shim_name
EspFilesThirdStage(s2, entry, fflags, shim) ==
    IF s2.err # NoError THEN s2
    ELSE IF INCLUDE_REVOCATIONS \in fflags /\ shim
    THEN LoadStage(entry, "revocations", s2)
    ELSE s2
EspFilesSecondStage(s1, entry, fflags, shim) ==
    IF s1.err # NoError THEN s1
    ELSE IF INCLUDE_SECOND_STAGE \in fflags /\ shim
    THEN EspFilesThirdStage(LoadStage(entry, "second", s1), entry, fflags, shim)
    ELSE EspFilesThirdStage(s1, entry, fflags, shim)
EspFilesStages(entry, fflags, files) ==
    IF INCLUDE_FIRST_STAGE \in fflags
    THEN EspFilesSecondStage(
             LoadStage(entry, "first", [files |-> files, err |-> NoError, tried |-> <<>>]),
             entry, fflags, HasSuffix(entry.name[1], shim_name))
    ELSE EspFilesSecondStage([files |-> files, err |-> NoError, tried |-> <<>>],
                             entry, fflags, HasSuffix(entry.name[1], shim_name))

\* what one entry gives: the cache, the files so far, success or the error,
\* the mounts and unmounts made, the stages tried
EntryResult(v, files, err, events, tried) ==
    [cache |-> v.cache, files |-> files, ok |-> err = NoError, err |-> err,
     found |-> v.found, events |-> events, tried |-> tried]

\* the entry with its volume mounted: volume_locker is released when the
\* function returns, early or at its end
EspFilesMounted(s, v, files) ==
    EntryResult(v, s.files, s.err,
                <<MountEvent(v.ret[1])>>
                    \o g_autoptr_locker(v.ret[1], IF s.err = NoError THEN "end" ELSE "return"),
                s.tried)

\* the same entry mounting its volume whatever the flags say
EspFilesForVolumeMounting(v, f, entry, fflags, files) ==
    IF v.ret = NULL
    THEN EntryResult(v, files, v.err, <<>>, <<>>)
    ELSE IF ~v.ret[1].mountable
    THEN EntryResult(v, files, "mount", <<>>, <<>>)
    ELSE IF entry.name = NULL
    THEN EntryResult(v, files, entry.name_err,
                     <<MountEvent(v.ret[1])>> \o g_autoptr_locker(v.ret[1], "return"), <<>>)
    ELSE EspFilesMounted(EspFilesStages(entry, fflags, files), v, files)

\* the entry once its volume has been looked up: v is what
\* fu_context_get_esp_volume_by_hard_drive_device_path gave
EspFilesForVolume(v, f, entry, fflags, files) ==
    IF v.ret = NULL
    THEN EntryResult(v, files, v.err, <<>>, <<>>)
    ELSE IF INHIBIT_VOLUME_MOUNT \in f
    THEN EntryResult(v, files, "FWUPD_ERROR_NOT_SUPPORTED", <<>>, <<>>)
    ELSE IF ~v.ret[1].mountable
    THEN EntryResult(v, files, "mount", <<>>, <<>>)
    ELSE IF entry.name = NULL
    THEN EntryResult(v, files, entry.name_err,
                     <<MountEvent(v.ret[1])>> \o g_autoptr_locker(v.ret[1], "return"), <<>>)
    ELSE EspFilesMounted(EspFilesStages(entry, fflags, files), v, files)

fu_context_get_esp_files_for_entry(cache, f, env, w, entry, fflags, files) ==
    IF ~entry.dp_list \/ entry.hdd = NULL \/ ~entry.path
    THEN [cache |-> cache, files |-> files, ok |-> TRUE, err |-> NoError, found |-> FALSE,
          events |-> <<>>, tried |-> <<>>]
    ELSE EspFilesForVolume(
             fu_context_get_esp_volume_by_hard_drive_device_path(cache, env, w, entry.hdd[1]),
             f, entry, fflags, files)

\* what the loop has seen so far: whether a lookup found volumes, the mounts
\* and unmounts, and for each entry processed its outcome, the stages tried
\* and the files it added
EspFilesSeen(seen, r, files) ==
    [found |-> seen.found \/ r.found,
     events |-> seen.events \o r.events,
     results |-> Append(seen.results,
                        [ok |-> r.ok, err |-> r.err, tried |-> r.tried,
                         added |-> SubSeq(r.files, Len(files) + 1, Len(r.files))])]

\* the errors of an entry that only skip the entry
SkippedEntryErrors == {"FWUPD_ERROR_NOT_FOUND", "FWUPD_ERROR_INVALID_FILE"}

\* the result of the call when the entry that gave r ended it
EspFilesAbort(r, seen) ==
    [cache |-> r.cache, ret |-> NULL, err |-> r.err, found |-> seen.found,
     events |-> seen.events, results |-> seen.results]

\* the loop over the boot entries, r being what the entry at i gave; the
\* platform gives the same answers to every entry of one call
RECURSIVE EspFilesLoop(_, _, _, _, _, _, _, _, _)
\* a variant that gives up at the first entry that fails
EspFilesAfterEntryStrict(r, f, env, w, entries, fflags, i, seen) ==
    IF ~r.ok
    THEN EspFilesAbort(r, seen)
    ELSE EspFilesLoop(r.cache, f, env, w, entries, fflags, r.files, i + 1, seen)

EspFilesAfterEntry(r, f, env, w, entries, fflags, i, seen) ==
    IF ~r.ok /\ r.err \notin SkippedEntryErrors
    THEN EspFilesAbort(r, seen)
    ELSE EspFilesLoop(r.cache, f, env, w, entries, fflags, r.files, i + 1, seen)

EspFilesEntry(r, f, env, w, entries, fflags, files, i, seen) ==
    EspFilesAfterEntry(r, f, env, w, entries, fflags, i, EspFilesSeen(seen, r, files))

EspFilesLoop(cache, f, env, w, entries, fflags, files, i, seen) ==
    IF i > Len(entries)
    THEN [cache |-> cache, ret |-> Ptr(files), err |-> NoError, found |-> seen.found,
          events |-> seen.events, results |-> seen.results]
    ELSE EspFilesEntry(
             fu_context_get_esp_files_for_entry(cache, f, env, w, entries[i], fflags, files),
             f, env, w, entries, fflags, files, i, seen)

\* entries: NULL when fu_efivars_get_boot_entries fails
fu_context_get_esp_files(cache, f, env, w, entries, fflags) ==
    IF entries = NULL
    THEN [cache |-> cache, ret |-> NULL, err |-> "boot-entries", found |-> FALSE,
          events |-> <<>>, results |-> <<>>]
    ELSE EspFilesLoop(cache, f, env, w, entries[1], fflags, <<>>, 1,
                      [found |-> FALSE, events |-> <<>>, results |-> <<>>])

\* entrylists: what fu_efivars_get_boot_entries can give, NULL when it fails
GetEspFiles(entrylists, flagsets) ==
    \E w \in WorldsFor(esp_volumes, env_esp_path), entries \in entrylists,
       fflags \in flagsets :
        LET r == fu_context_get_esp_files(esp_volumes, flags, env_esp_path, w,
                                          entries, fflags) IN
        /\ pc = "idle"
        /\ esp_volumes' = r.cache
        /\ discovered' = (discovered \/ r.found)
        /\ UNCHANGED miscVars
        /\ call' = [op |-> "get_esp_files", entries |-> entries, fflags |-> fflags,
                    ret |-> r.ret, err |-> r.err, events |-> r.events,
                    results |-> r.results, inhibit |-> INHIBIT_VOLUME_MOUNT \in flags]
        /\ UNCHANGED <<flags, storeVars, esp_location, env_esp_path, pc>>

EspEntryLists ==
    {NULL, Ptr(<<>>), Ptr(<<Boot0001>>), Ptr(<<Boot0000>>), Ptr(<<Boot0002, Boot0000>>),
     Ptr(<<Boot0004, Boot0000>>)}
EspFileFlags == {{INCLUDE_FIRST_STAGE, INCLUDE_SECOND_STAGE, INCLUDE_REVOCATIONS}}
EspFlagMasks == {{INHIBIT_VOLUME_MOUNT}}
EspLocations == {"/run/media/sda1"}

NextEsp ==
    \/ AddEspVolume(EspUniverse)
    \/ GetEspVolumes
    \/ GetDefaultEsp
    \/ GetEspVolumeByHardDriveDevicePath
    \/ GetEspFiles(EspEntryLists, EspFileFlags)
    \/ SetEspLocation(EspLocations)
    \/ SetEnv
    \/ AddFlag(EspFlagMasks)
    \/ RemoveFlag(EspFlagMasks)

SpecEsp == Init /\ [][NextEsp]_vars

(***************************************************************************)
(* The choice of the default ESP, over volumes that differ in what the     *)
(* scoring reads: size, kind, files, EFI directory, whether they mount     *)
(***************************************************************************)
Esp10NoList ==
    [Volume("nvme0n1p1", FU_VOLUME_KIND_ESP, "vfat", TRUE, 10240) EXCEPT !.files = NULL]
Esp20 ==
    [Volume("nvme0n1p2", FU_VOLUME_KIND_ESP, "vfat", TRUE, 20480)
         EXCEPT !.files = Ptr(<<<<"boot", "x64", ".efi">>, <<"grub", ".cfg">>>>)]
Esp15Linux ==
    [Volume("nvme0n1p3", FU_VOLUME_KIND_ESP, "vfat", TRUE, 15872)
         EXCEPT !.files = Ptr(<<<<"README">>, <<"GRUB", "X64", ".EFI">>>>)]
BdpHuge == Volume("sda2", FU_VOLUME_KIND_BDP, "vfat", TRUE, 268435456)
BdpTiny == Volume("sda3", FU_VOLUME_KIND_BDP, "vfat", TRUE, 512)
BdpNoEfi == [Volume("sda4", FU_VOLUME_KIND_BDP, "vfat", TRUE, 4096) EXCEPT !.efi_dir = FALSE]
EspUnmountable ==
    [Volume("sdd1", FU_VOLUME_KIND_ESP, "vfat", FALSE, 30720) EXCEPT !.mountable = FALSE]
EspHuge == Volume("sde1", FU_VOLUME_KIND_ESP, "vfat", TRUE, 134217728)
ScoreUniverse ==
    {Esp10NoList, Esp20, Esp15Linux, EspHuge, BdpHuge, BdpTiny, BdpNoEfi, EspUnmountable}
ScoreLocations == {"/run/media/nvme0n1p2"}

\* the longest list fu_context_add_esp_volume is let to build here
MaxCandidates == 3

AddCandidate(volumes) ==
    /\ Len(esp_volumes) < MaxCandidates
    /\ AddEspVolume(volumes)

NextDefaultEsp ==
    \/ AddCandidate(ScoreUniverse)
    \/ GetDefaultEsp
    \/ SetEspLocation(ScoreLocations)
    \/ AddFlag(EspFlagMasks)
    \/ RemoveFlag(EspFlagMasks)

SpecDefaultEsp == Init /\ [][NextDefaultEsp]_vars

(***************************************************************************)
(* The functions that mount volumes, over a list of candidates and boot    *)
(* entries that name them.                                                 *)
(***************************************************************************)
FilesUniverse == {Esp20, EspUnmountable, BdpNoEfi}

\* boot entries on these volumes
Boot0003 == LoadOption(3, TRUE, Ptr("HD-nvme0n1p2"), TRUE, Ptr(<<"EFI/fedora/", "grubx64.efi">>), "ok", "ok", "ok")
Boot0005 == LoadOption(5, TRUE, Ptr("HD-nvme0n1p2"), TRUE, Ptr(<<"EFI/fedora/", shim_name>>), "ok", "absent", "ok")
Boot0006 ==
    LoadOption(6, TRUE, Ptr("HD-nvme0n1p2"), TRUE, Ptr(<<"EFI/fedora/", shim_name>>), "not-pe", "ok", "unsupported")
Boot0007 == LoadOption(7, TRUE, Ptr("HD-sdd1"), TRUE, Ptr(<<"EFI/fedora/", shim_name>>), "ok", "ok", "ok")
Boot0008 == LoadOption(8, TRUE, Ptr("HD-nvme0n1p2"), TRUE, NULL, "ok", "ok", "ok")
Boot0009 ==
    LoadOption(9, TRUE, Ptr("HD-nvme0n1p2"), TRUE, Ptr(<<"EFI/fedora/", shim_name>>), "ok", "unreadable", "ok")
Boot000A == [Boot0008 EXCEPT !.idx = 10, !.name_err = "FWUPD_ERROR_INVALID_FILE"]
\* a file whose name holds the name of the shim without ending with it
Boot000B ==
    LoadOption(11, TRUE, Ptr("HD-nvme0n1p2"), TRUE, Ptr(<<"EFI/", shim_name, ".bak">>),
               "ok", "ok", "ok")
\* entries without a list, without a hard-drive node, without a file-path node
Boot000C == LoadOption(12, FALSE, NULL, FALSE, NULL, "ok", "ok", "ok")
Boot000D == LoadOption(13, TRUE, NULL, TRUE, Ptr(<<"EFI/fedora/", shim_name>>), "ok", "ok", "ok")
Boot000E == LoadOption(14, TRUE, Ptr("HD-nvme0n1p2"), FALSE, NULL, "ok", "ok", "ok")
Boot000F ==
    LoadOption(15, TRUE, Ptr("HD-nvme0n1p2"), TRUE, Ptr(<<"EFI/fedora/", shim_name>>),
               "ok", "ok", "ok")

FileEntryLists ==
    {Ptr(<<Boot0005, Boot0003>>), Ptr(<<Boot0006, Boot0002, Boot0003>>),
     Ptr(<<Boot0003, Boot0007>>), Ptr(<<Boot0008, Boot0003>>),
     Ptr(<<Boot000A, Boot0009, Boot0003>>),
     Ptr(<<Boot000C, Boot000F, Boot000D, Boot000B, Boot000E, Boot0003>>)}
FileFlagSets ==
    {{INCLUDE_FIRST_STAGE, INCLUDE_SECOND_STAGE, INCLUDE_REVOCATIONS},
     {INCLUDE_FIRST_STAGE, INCLUDE_REVOCATIONS}}

NextEspFiles ==
    \/ AddCandidate(FilesUniverse)
    \/ GetDefaultEsp
    \/ GetEspFiles(FileEntryLists, FileFlagSets)
    \/ SetEspLocation(ScoreLocations)
    \/ AddFlag(EspFlagMasks)
    \/ RemoveFlag(EspFlagMasks)

SpecEspFiles == Init /\ [][NextEspFiles]_vars

\* a call of fu_context_get_default_esp that got past the policy test with
\* n candidates, or more
DefaultEspCall == call.op = "get_default_esp" /\ ~call.inhibit
LocationMatches(esp) == esp_location # NULL => esp.mount_point = esp_location

Survived(esp) == esp.mountable /\ LocationMatches(esp) /\ esp.efi_dir
Survivors(candidates) == {i \in 1..Len(candidates) : Survived(candidates[i])}

\* C12, as the specification states it: with more than one candidate the
\* volume returned survived the filtering
C12_ReturnedSurvived ==
    (DefaultEspCall /\ Len(call.candidates) > 1 /\ call.ret # NULL)
    => Survived(call.ret[1])

\* C13, as the specification states it: with more than one candidate the
\* volume returned is the first of the survivors with the highest score, and
\* without a survivor the call fails with "no EFI system partition found"
C13_FirstOfHighestScore ==
    (DefaultEspCall /\ Len(call.candidates) > 1)
    => IF Survivors(call.candidates) = {}
       THEN call.ret = NULL /\ call.msg = "no EFI system partition found"
       ELSE \E i \in Survivors(call.candidates) :
                /\ call.ret = Ptr(call.candidates[i])
                /\ \A j \in Survivors(call.candidates) :
                       /\ call.scores[j][1] <= call.scores[i][1]
                       /\ call.scores[j][1] = call.scores[i][1] => i <= j

\* the Linux heuristic, on the names the volume lists
LooksLikeLinux(esp) ==
    /\ esp.files # NULL
    /\ \E i \in 1..Len(esp.files[1]) :
           /\ LowerName(esp.files[1][i])[1] \in {"grub", "shim", "systemd-boot", "zfsbootmenu"}
           /\ LowerName(esp.files[1][i])[Len(esp.files[1][i])] = ".efi"

\* C14: a candidate gets a score exactly when it survives, and the score is
\* its size in whole MiB (sizes are in KiB here, so size div 1024), plus
\* 0x20000 when its kind is ESP, plus 0x10000 when a file's lower-cased name
\* begins with grub, shim, systemd-boot or zfsbootmenu and ends with .efi
C14_Score ==
    (DefaultEspCall /\ Len(call.candidates) > 1)
    => \A i \in 1..Len(call.candidates) :
           /\ call.scores[i] # NULL <=> Survived(call.candidates[i])
           /\ call.scores[i] # NULL
                  => call.scores[i][1] =
                         (call.candidates[i].size \div 1024)
                         + (IF call.candidates[i].kind = FU_VOLUME_KIND_ESP
                            THEN 131072 ELSE 0)
                         + (IF LooksLikeLinux(call.candidates[i]) THEN 65536 ELSE 0)

\* 15.5 MiB with GRUBX64.EFI scores 15 + 0x20000 + 0x10000, and a volume
\* whose files cannot be listed is scored without the bonus
C14_Witness ==
    /\ DefaultEspCall
    /\ call.candidates = <<Esp10NoList, Esp15Linux>>
    /\ call.scores = <<Ptr(131082), Ptr(196623)>>

\* C15, as the specification states it: among the survivors no candidate of
\* kind ESP loses to one of another kind, and of two of the same kind the one
\* that passes the Linux heuristic does not lose to one that fails it
C15_KindThenHeuristic ==
    (DefaultEspCall /\ Len(call.candidates) > 1 /\ call.ret # NULL /\ Survived(call.ret[1]))
    => \A j \in Survivors(call.candidates) :
           /\ ~(/\ call.candidates[j].kind = FU_VOLUME_KIND_ESP
                /\ call.ret[1].kind # FU_VOLUME_KIND_ESP)
           /\ ~(/\ call.candidates[j].kind = call.ret[1].kind
                /\ LooksLikeLinux(call.candidates[j])
                /\ ~LooksLikeLinux(call.ret[1]))

\* the fixture of C16: no user location, every candidate mounts, is of kind
\* ESP and has an EFI directory, and no two sizes are 0x10000 MiB apart
LinuxFixture(candidates) ==
    /\ esp_location = NULL
    /\ Len(candidates) > 1
    /\ \A i \in 1..Len(candidates) :
           /\ candidates[i].mountable
           /\ candidates[i].kind = FU_VOLUME_KIND_ESP
           /\ candidates[i].efi_dir
    /\ \A i, j \in 1..Len(candidates) :
           (candidates[i].size \div 1024) - (candidates[j].size \div 1024) < 65536

Outstanding(events, id) ==
    Cardinality({k \in 1..Len(events) : events[k] = [ev |-> "mount", id |-> id]})
    - Cardinality({k \in 1..Len(events) : events[k] = [ev |-> "unmount", id |-> id]})

\* C17: when fu_context_get_default_esp or fu_context_get_esp_files returns,
\* on any path, every volume it mounted has been unmounted as many times,
\* and each mount is undone before the next one is made
C17_MountsReleased ==
    call.op \in {"get_default_esp", "get_esp_files"}
    => /\ \A k \in 1..Len(call.events) : Outstanding(call.events, call.events[k].id) = 0
       /\ \A k \in 1..Len(call.events) :
              call.events[k].ev = "mount"
              => /\ k < Len(call.events)
                 /\ call.events[k + 1] = [ev |-> "unmount", id |-> call.events[k].id]

\* fu_context_get_esp_files returned an error after it had mounted a volume
C17_Witness ==
    /\ call.op = "get_esp_files"
    /\ call.ret = NULL
    /\ call.events # <<>>

\* C18: with FWUPD_UEFI_ESP_PATH set and the cache empty,
\* fu_context_get_esp_volumes enumerates nothing and returns the cache holding
\* one volume of kind ESP whose mount point is the path; with that volume
\* cached a later call returns the same list, the variable set or not
C18_EnvOverride ==
    [][call'.op = "get_esp_volumes"
       => /\ (esp_volumes = <<>> /\ env_esp_path # NULL)
                 => /\ ~call'.enumerated
                    /\ Len(esp_volumes') = 1
                    /\ esp_volumes'[1].kind = "c12a7328-f81f-11d2-ba4b-00a0c93ec93b"
                    /\ esp_volumes'[1].mount_point = env_esp_path
                    /\ call'.ret = Ptr(esp_volumes')
          /\ (Len(esp_volumes) = 1 /\ esp_volumes[1].id = NoVolumeId)
                 => /\ ~call'.enumerated
                    /\ esp_volumes' = esp_volumes
                    /\ call'.ret = Ptr(esp_volumes)]_vars

\* the volume made for the variable is returned with the variable unset
C18_Witness ==
    /\ call.op = "get_esp_volumes"
    /\ env_esp_path = NULL
    /\ \E path \in EspPaths : esp_volumes = <<EnvVolume(path)>>
    /\ call.ret = Ptr(esp_volumes)

\* the entries of a call whose failure is neither NOT_FOUND nor INVALID_FILE
FatalEntries(results) ==
    {i \in 1..Len(results) :
         ~results[i].ok
         /\ results[i].err \notin {"FWUPD_ERROR_NOT_FOUND", "FWUPD_ERROR_INVALID_FILE"}}
RECURSIVE AddedFiles(_)
AddedFiles(results) ==
    IF results = <<>> THEN <<>> ELSE Head(results).added \o AddedFiles(Tail(results))

\* C19: fu_context_get_esp_files, given boot entries, returns no list exactly
\* when some entry failed with an error other than NOT_FOUND and
\* INVALID_FILE: that entry is the last one processed and its error is the
\* error returned; otherwise every entry is processed, the ones that failed
\* with NOT_FOUND or INVALID_FILE included, and the list holds what the
\* entries added
C19_EntryFailures ==
    (call.op = "get_esp_files" /\ call.entries # NULL)
    => /\ call.ret = NULL <=> FatalEntries(call.results) # {}
       /\ FatalEntries(call.results) = {}
              => /\ Len(call.results) = Len(call.entries[1])
                 /\ call.err = NoError
                 /\ call.ret = Ptr(AddedFiles(call.results))
       /\ FatalEntries(call.results) # {}
              => /\ FatalEntries(call.results) = {Len(call.results)}
                 /\ call.err = call.results[Len(call.results)].err

\* an entry failed with NOT_FOUND and a later entry added a file to the list
\* returned
C19_Witness ==
    /\ call.op = "get_esp_files"
    /\ call.ret # NULL
    /\ \E i, j \in 1..Len(call.results) :
           /\ i < j
           /\ call.results[i].err = "FWUPD_ERROR_NOT_FOUND"
           /\ call.results[j].added # <<>>

\* the stages that the flags and the file name of an entry ask for
RequestedStages(entry, fflags) ==
    (IF INCLUDE_FIRST_STAGE \in fflags THEN <<"first">> ELSE <<>>)
    \o (IF INCLUDE_SECOND_STAGE \in fflags /\ (entry.name # NULL /\ HasSuffix(entry.name[1], "shimx64.efi"))
        THEN <<"second">> ELSE <<>>)
    \o (IF INCLUDE_REVOCATIONS \in fflags /\ (entry.name # NULL /\ HasSuffix(entry.name[1], "shimx64.efi"))
        THEN <<"revocations">> ELSE <<>>)
RECURSIVE LoadedStages(_, _)
LoadedStages(entry, stages) ==
    IF stages = <<>> THEN <<>>
    ELSE (IF entry.load[Head(stages)] = "ok"
          THEN <<[idx |-> entry.idx, stage |-> Head(stages)]>> ELSE <<>>)
         \o LoadedStages(entry, Tail(stages))

\* C20, as the specification states it: an entry whose requested files are
\* each a PE file, absent, or not a PE file does not fail; every requested
\* stage is tried and the PE files among them are added
C20_AbsentFileSkipped ==
    (call.op = "get_esp_files" /\ call.entries # NULL)
    => \A i \in 1..Len(call.results) :
           (/\ call.results[i].tried # <<>>
            /\ \A k \in 1..Len(RequestedStages(call.entries[1][i], call.fflags)) :
                   call.entries[1][i].load[RequestedStages(call.entries[1][i], call.fflags)[k]]
                       \in {"ok", "absent", "not-pe"})
           => /\ call.results[i].ok
              /\ call.results[i].tried = RequestedStages(call.entries[1][i], call.fflags)
              /\ call.results[i].added =
                     LoadedStages(call.entries[1][i],
                                  RequestedStages(call.entries[1][i], call.fflags))

(***************************************************************************)
(* The ESP volume cache                                                    *)
(***************************************************************************)

\* C4: once a call has returned a non-empty volume list, every later call of
\* fu_context_get_esp_volumes returns the cached array itself, leaves it as
\* it is, enumerates nothing and does not look the environment variable up,
\* whatever the platform and the environment have become in between
C4_CachedArrayReturned ==
    [][(discovered /\ call'.op = "get_esp_volumes")
       => /\ call'.ret = Ptr(esp_volumes)
          /\ esp_volumes' = esp_volumes
          /\ ~call'.enumerated
          /\ ~call'.env_lookup]_vars

\* a call after a discovery by enumeration, made with the variable set since
C4_Witness ==
    /\ call.op = "get_esp_volumes"
    /\ call.after_discovery
    /\ env_esp_path # NULL
    /\ call.ret = Ptr(esp_volumes)
    /\ \A i \in 1..Len(esp_volumes) : esp_volumes[i].id # NoVolumeId

\* C5: fu_context_get_esp_volumes enumerates exactly when the cached list is
\* empty (and the environment gives no path): a call that found nothing
\* leaves the cache empty, so the call after it enumerates again, and a
\* cache with anything in it, however it got there, means no enumeration
C5_EnumerateOnlyWhenEmpty ==
    [][call'.op = "get_esp_volumes"
       => /\ call'.enumerated <=> (esp_volumes = <<>> /\ env_esp_path = NULL)
          /\ call'.ret = NULL => esp_volumes' = <<>>
          /\ esp_volumes # <<>> => (~call'.enumerated /\ esp_volumes' = esp_volumes)]_vars

\* a call that found volumes right after a call that found none
C5_Witness ==
    /\ call.op = "get_esp_volumes"
    /\ call.after_failure
    /\ call.enumerated
    /\ call.ret # NULL
    /\ esp_volumes # <<>>

NoDuplicateIds(volumes) ==
    \A i, j \in 1..Len(volumes) : i # j => volumes[i].id # volumes[j].id

\* C6: no two volumes of the cached list have the same id, and adding a
\* volume whose id is cached already leaves the list as it is, with the
\* object that was added first
C6_NoDuplicateIds ==
    /\ []NoDuplicateIds(esp_volumes)
    /\ [][(/\ call'.op = "add_esp_volume"
           /\ \E i \in 1..Len(esp_volumes) : esp_volumes[i].id = call'.volume.id)
          => esp_volumes' = esp_volumes]_vars

\* a volume was added whose id the list had, for another object
C6_Witness ==
    /\ call.op = "add_esp_volume"
    /\ \E i \in 1..Len(esp_volumes) :
           /\ esp_volumes[i].id = call.volume.id
           /\ esp_volumes[i] # call.volume

\* C7: the cached list only grows: a volume that is in it before a step of
\* any operation is in it after the step
C7_AppendOnly ==
    [][\A i \in 1..Len(esp_volumes) :
           \E j \in 1..Len(esp_volumes') : esp_volumes'[j] = esp_volumes[i]]_vars

\* the default ESP was chosen from a list that holds a volume without a score
C7_Witness ==
    /\ call.op = "get_default_esp"
    /\ call.ret # NULL
    /\ Len(esp_volumes) > 1
    /\ EspScored(esp_volumes, esp_location) # 1..Len(esp_volumes)

\* C8, as the specification states it: fu_context_get_default_esp leaves a
\* cached list that is not empty with the same volumes in the same order
C8_DefaultEspKeepsOrder ==
    [][(call'.op = "get_default_esp" /\ esp_volumes # <<>>)
       => esp_volumes' = esp_volumes]_vars

\* the candidates of an enumeration: the vfat volumes of the ESP answer, then
\* the internal vfat volumes of the BDP answer, the first of each id
AnswerVolumes(answer) == IF answer = NULL THEN <<>> ELSE answer[1]
RECURSIVE FirstOfEachId(_, _)
FirstOfEachId(volumes, i) ==
    IF i > Len(volumes) THEN <<>>
    ELSE (IF \E j \in 1..(i - 1) : volumes[j].id = volumes[i].id
          THEN <<>> ELSE <<volumes[i]>>) \o FirstOfEachId(volumes, i + 1)
Candidates(w) ==
    FirstOfEachId(
        SelectSeq(AnswerVolumes(w.esp), LAMBDA v : v.fstype = "vfat")
        \o SelectSeq(AnswerVolumes(w.bdp), LAMBDA v : v.fstype = "vfat" /\ v.internal), 1)

\* C9: with an empty cache and no path in the environment, the list built by
\* fu_context_get_esp_volumes is the vfat volumes of kind ESP in the order
\* listed, then the internal vfat volumes of kind BDP in the order listed,
\* without the volumes whose id came earlier; an answer that failed for one
\* kind counts as no volume of that kind
C9_CandidateList ==
    (call.op = "get_esp_volumes" /\ call.enumerated)
    => /\ esp_volumes = Candidates(call.world)
       /\ \A i \in 1..Len(esp_volumes) :
              /\ esp_volumes[i].fstype = "vfat"
              /\ esp_volumes[i].kind = FU_VOLUME_KIND_BDP => esp_volumes[i].internal

\* an ESP volume and then a BDP volume were found, in that order
C9_Witness ==
    /\ call.op = "get_esp_volumes"
    /\ call.enumerated
    /\ Len(esp_volumes) = 2
    /\ esp_volumes[1].kind = FU_VOLUME_KIND_ESP
    /\ esp_volumes[2].kind = FU_VOLUME_KIND_BDP

\* C10: an enumeration without a candidate returns NULL, with the error of
\* fu_common_get_block_devices when that fails and else NOT_FOUND, "No ESP or
\* BDP found"; the cache stays empty
C10_NothingFound ==
    (call.op = "get_esp_volumes" /\ call.enumerated /\ Candidates(call.world) = <<>>)
    => /\ call.ret = NULL
       /\ esp_volumes = <<>>
       /\ call.blockdev
       /\ IF call.world.blockdev_ok
          THEN call.err = "FWUPD_ERROR_NOT_FOUND" /\ call.msg = "No ESP or BDP found"
          ELSE call.err = BlockDevicesError.err

\* volumes were listed, none passed, and the block devices cannot be read
C10_Witness ==
    /\ call.op = "get_esp_volumes"
    /\ call.ret = NULL
    /\ ~call.world.blockdev_ok
    /\ AnswerLen(call.world.bdp) > 0
    /\ call.err = BlockDevicesError.err
    /\ esp_volumes = <<>>

(***************************************************************************)
(* The state properties: power, lid and display state, battery level and   *)
(* threshold, and the flags, set through the setters or as GObject         *)
(* properties.  A setter gives the value stored after it and the number of *)
(* g_object_notify calls it made.                                          *)
(***************************************************************************)
fu_context_set_power_state(cur, state) ==
    IF cur = state THEN [value |-> cur, notified |-> 0]
    ELSE [value |-> state, notified |-> 1]

fu_context_set_lid_state(cur, state) ==
    IF cur = state THEN [value |-> cur, notified |-> 0]
    ELSE [value |-> state, notified |-> 1]

fu_context_set_display_state(cur, state) ==
    IF cur = state THEN [value |-> cur, notified |-> 0]
    ELSE [value |-> state, notified |-> 1]

\* the setter without its g_return_if_fail
fu_context_set_battery_level_unchecked(cur, level) ==
    IF cur = level THEN [value |-> cur, notified |-> 0]
    ELSE [value |-> level, notified |-> 1]

fu_context_set_battery_level(cur, level) ==
    IF ~(level <= FWUPD_BATTERY_LEVEL_INVALID) THEN [value |-> cur, notified |-> 0]
    ELSE IF cur = level THEN [value |-> cur, notified |-> 0]
    ELSE [value |-> level, notified |-> 1]

fu_context_set_battery_threshold(cur, threshold) ==
    IF ~(threshold <= FWUPD_BATTERY_LEVEL_INVALID) THEN [value |-> cur, notified |-> 0]
    ELSE IF cur = threshold THEN [value |-> cur, notified |-> 0]
    ELSE [value |-> threshold, notified |-> 1]

\* the values callers pass: three values of FuPowerState, two of FuLidState
\* and FuDisplayState, and battery values up to and above the sentinel
PowerStates == {FU_POWER_STATE_UNKNOWN, 1, 2}
LidStates == {FU_LID_STATE_UNKNOWN, 1}
DisplayStates == {FU_DISPLAY_STATE_UNKNOWN, 1}
BatteryValues ==
    {0, 100, FWUPD_BATTERY_LEVEL_INVALID, FWUPD_BATTERY_LEVEL_INVALID + 1, 255}
\* FU_CONTEXT_FLAG_NONE, single flags and a mask of two
StateFlagMasks ==
    {{}, {LOADED_HWINFO}, {INHIBIT_VOLUME_MOUNT}, {LOADED_HWINFO, INHIBIT_VOLUME_MOUNT}}

\* a call of a setter: r is what the setter gives
Setter(name, arg, r) ==
    /\ pc = "idle"
    /\ call' = [op |-> name, arg |-> arg, notified |-> r.notified]
    /\ UNCHANGED <<hwVars, espVars, backends, fdt, fdt_files, pc>>

SetPowerState ==
    \E v \in PowerStates :
        /\ power_state' = fu_context_set_power_state(power_state, v).value
        /\ Setter("set_power_state", v, fu_context_set_power_state(power_state, v))
        /\ UNCHANGED <<lid_state, display_state, battery_level, battery_threshold>>

SetLidState ==
    \E v \in LidStates :
        /\ lid_state' = fu_context_set_lid_state(lid_state, v).value
        /\ Setter("set_lid_state", v, fu_context_set_lid_state(lid_state, v))
        /\ UNCHANGED <<power_state, display_state, battery_level, battery_threshold>>

SetDisplayState ==
    \E v \in DisplayStates :
        /\ display_state' = fu_context_set_display_state(display_state, v).value
        /\ Setter("set_display_state", v, fu_context_set_display_state(display_state, v))
        /\ UNCHANGED <<power_state, lid_state, battery_level, battery_threshold>>

SetBatteryLevel ==
    \E v \in BatteryValues :
        /\ battery_level' = fu_context_set_battery_level(battery_level, v).value
        /\ Setter("set_battery_level", v, fu_context_set_battery_level(battery_level, v))
        /\ UNCHANGED <<power_state, lid_state, display_state, battery_threshold>>

SetBatteryThreshold ==
    \E v \in BatteryValues :
        /\ battery_threshold' = fu_context_set_battery_threshold(battery_threshold, v).value
        /\ Setter("set_battery_threshold", v,
                  fu_context_set_battery_threshold(battery_threshold, v))
        /\ UNCHANGED <<power_state, lid_state, display_state, battery_level>>

\* g_object_set of one property: GObject refuses a value outside the range of
\* the GParamSpec, and otherwise calls fu_context_set_property and emits one
\* notification for the property, whatever the setter did
BatteryProperties == {"battery-level", "battery-threshold"}
g_param_value_validate(prop, v) ==
    IF prop \in BatteryProperties THEN 0 <= v /\ v <= FWUPD_BATTERY_LEVEL_INVALID ELSE TRUE

fu_context_set_property(prop, v) ==
    /\ battery_level' = IF prop = "battery-level"
                        THEN fu_context_set_battery_level(battery_level, v).value
                        ELSE battery_level
    /\ battery_threshold' = IF prop = "battery-threshold"
                            THEN fu_context_set_battery_threshold(battery_threshold, v).value
                            ELSE battery_threshold
    /\ power_state' = IF prop = "power-state"
                      THEN fu_context_set_power_state(power_state, v).value
                      ELSE power_state
    /\ lid_state' = IF prop = "lid-state"
                    THEN fu_context_set_lid_state(lid_state, v).value
                    ELSE lid_state
    /\ display_state' = IF prop = "display-state"
                        THEN fu_context_set_display_state(display_state, v).value
                        ELSE display_state
    /\ flags' = IF prop = "flags" THEN v ELSE flags

PropertyValues(prop) ==
    CASE prop \in BatteryProperties -> BatteryValues
      [] prop = "power-state" -> PowerStates
      [] prop = "lid-state" -> LidStates
      [] prop = "display-state" -> DisplayStates
      [] OTHER -> StateFlagMasks

SetProperty ==
    \E prop \in BatteryProperties \cup {"power-state", "lid-state", "display-state", "flags"} :
        \E v \in PropertyValues(prop) :
            /\ pc = "idle"
            /\ IF g_param_value_validate(prop, v)
               THEN fu_context_set_property(prop, v)
               ELSE UNCHANGED <<propVars, flags>>
            /\ call' = [op |-> "set_property", prop |-> prop, arg |-> v,
                        notified |-> IF g_param_value_validate(prop, v) THEN 1 ELSE 0]
            /\ UNCHANGED <<storeVars, espVars, backends, fdt, fdt_files, pc>>

NextState ==
    \/ SetPowerState
    \/ SetLidState
    \/ SetDisplayState
    \/ SetBatteryLevel
    \/ SetBatteryThreshold
    \/ AddFlag(StateFlagMasks)
    \/ RemoveFlag(StateFlagMasks)
    \/ SetProperty

SpecState == Init /\ [][NextState]_vars

\* C21: the battery level and the battery threshold start at
\* FWUPD_BATTERY_LEVEL_INVALID, stay within 0..FWUPD_BATTERY_LEVEL_INVALID
\* whatever setters are called and properties written, and a setter called
\* with a value above the sentinel changes neither and notifies nobody
C21_BatteryInRange ==
    /\ (battery_level = 101 /\ battery_threshold = 101)
    /\ [](battery_level \in 0..101 /\ battery_threshold \in 0..101)
    /\ [][(call'.op \in {"set_battery_level", "set_battery_threshold"} /\ call'.arg > 101)
          => /\ battery_level' = battery_level
             /\ battery_threshold' = battery_threshold
             /\ call'.notified = 0]_vars

\* a level above the sentinel was refused while a level of 100 was stored
C21_Witness ==
    /\ call.op = "set_battery_level"
    /\ call.arg = 102
    /\ battery_level = 100

StateSetters ==
    {"set_power_state", "set_lid_state", "set_display_state", "set_battery_level",
     "set_battery_threshold", "add_flag", "remove_flag"}

\* C22, as the specification states it: a call of a state setter notifies
\* once when it changes what is stored and not at all when it changes
\* nothing
C22_NotifiesExactlyOnChange ==
    [][call'.op \in StateSetters
       => call'.notified = IF <<propVars, flags>>' # <<propVars, flags>> THEN 1 ELSE 0]_vars

(***************************************************************************)
(* Backends.  A FuBackend is an object with a name; the Context keeps a    *)
(* reference to every backend it is given.                                 *)
(***************************************************************************)
Backend(id, name) == [id |-> id, name |-> name]
UdevBackend == Backend("backend-1", "udev")
UdevBackend2 == Backend("backend-2", "udev")
UsbBackend == Backend("backend-3", "usb")
BackendUniverse == {UdevBackend, UdevBackend2, UsbBackend}
BackendNames == {"udev", "usb", "bluez"}
MaxBackends == 3

fu_context_add_backend(arr, backend) == Append(arr, backend)

\* the lookup returning the backend added last
fu_context_get_backend_by_name_last(arr, name) ==
    IF \E i \in 1..Len(arr) : arr[i].name = name
    THEN [ret |-> Ptr(arr[CHOOSE i \in 1..Len(arr) :
                              /\ arr[i].name = name
                              /\ \A j \in 1..Len(arr) : arr[j].name = name => j <= i]),
          err |-> NoError]
    ELSE [ret |-> NULL, err |-> "FWUPD_ERROR_NOT_FOUND"]

fu_context_get_backend_by_name(arr, name) ==
    IF \E i \in 1..Len(arr) : arr[i].name = name
    THEN [ret |-> Ptr(arr[CHOOSE i \in 1..Len(arr) :
                              /\ arr[i].name = name
                              /\ \A j \in 1..(i - 1) : arr[j].name # name]),
          err |-> NoError]
    ELSE [ret |-> NULL, err |-> "FWUPD_ERROR_NOT_FOUND"]

fu_context_has_backend(arr, name) == \E i \in 1..Len(arr) : arr[i].name = name

AddBackend ==
    \E backend \in BackendUniverse :
        /\ pc = "idle"
        /\ Len(backends) < MaxBackends
        /\ backends' = fu_context_add_backend(backends, backend)
        /\ call' = [op |-> "add_backend", arg |-> backend]
        /\ UNCHANGED <<hwVars, espVars, propVars, fdt, fdt_files, pc>>

GetBackendByName ==
    \E name \in BackendNames :
        /\ pc = "idle"
        /\ call' = [op |-> "get_backend_by_name", arg |-> name,
                    ret |-> fu_context_get_backend_by_name(backends, name).ret,
                    err |-> fu_context_get_backend_by_name(backends, name).err]
        /\ UNCHANGED <<hwVars, espVars, miscVars, pc>>

HasBackend ==
    \E name \in BackendNames :
        /\ pc = "idle"
        /\ call' = [op |-> "has_backend", arg |-> name,
                    ret |-> fu_context_has_backend(backends, name)]
        /\ UNCHANGED <<hwVars, espVars, miscVars, pc>>

NextBackends ==
    \/ AddBackend
    \/ GetBackendByName
    \/ HasBackend

SpecBackends == Init /\ [][NextBackends]_vars

\* the positions of the backends of a name
Named(arr, name) == {i \in 1..Len(arr) : arr[i].name = name}

\* C23, as the specification states it: the Context holds at most one
\* backend of any name
C23_OneBackendPerName ==
    \A name \in BackendNames : Cardinality(Named(backends, name)) <= 1

\* the backend of a name that was added first, NULL when there is none
FirstNamed(arr, name) ==
    IF Named(arr, name) = {} THEN NULL
    ELSE Ptr(arr[CHOOSE i \in Named(arr, name) : \A j \in Named(arr, name) : i <= j])

\* C24: fu_context_get_backend_by_name returns the backend of that name that
\* was added first, or NULL with FWUPD_ERROR_NOT_FOUND when none was added;
\* fu_context_has_backend is TRUE exactly when that lookup would succeed; and
\* adding a backend never changes what the lookup returns for a name that
\* already had one
C24_FirstBackendWins ==
    /\ [](call.op = "get_backend_by_name"
             => /\ call.ret = FirstNamed(backends, call.arg)
                /\ call.ret = NULL <=> call.err = "FWUPD_ERROR_NOT_FOUND"
                /\ call.ret # NULL => call.err = NoError)
    /\ [](call.op = "has_backend"
             => (call.ret <=> FirstNamed(backends, call.arg) # NULL))
    /\ [][call'.op = "add_backend"
          => \A name \in BackendNames :
                 FirstNamed(backends, name) # NULL
                 => FirstNamed(backends', name) = FirstNamed(backends, name)]_vars

\* two backends named udev were added and the lookup gave the first
C24_Witness ==
    /\ call.op = "get_backend_by_name"
    /\ call.arg = "udev"
    /\ backends = <<UdevBackend2, UsbBackend, UdevBackend>>
    /\ call.ret = Ptr(UdevBackend2)

(***************************************************************************)
(* The udev subsystems plugins register for, and the lookup of the plugins *)
(* of a subsystem.                                                         *)
(***************************************************************************)
\* g_ptr_array_extend of the array of one subsystem, when the table has it
udev_plugin_names_extend(names, tbl, subsystem) ==
    IF subsystem \in DOMAIN tbl THEN names \o tbl[subsystem] ELSE names

\* the same lookup with the exact match added first
fu_context_get_plugin_names_for_udev_subsystem_exact_first(tbl, subsystem) ==
    LET exact == udev_plugin_names_extend(<<>>, tbl, subsystem)
        plugin_names == IF Len(subsystem) > 1
                        THEN udev_plugin_names_extend(exact, tbl, <<subsystem[1]>>)
                        ELSE exact
    IN IF Len(plugin_names) = 0
       THEN [ret |-> NULL, err |-> "FWUPD_ERROR_NOT_FOUND"]
       ELSE [ret |-> Ptr(plugin_names), err |-> NoError]

fu_context_get_plugin_names_for_udev_subsystem(tbl, subsystem) ==
    LET based == IF Len(subsystem) > 1
                 THEN udev_plugin_names_extend(<<>>, tbl, <<subsystem[1]>>)
                 ELSE <<>>
        plugin_names == udev_plugin_names_extend(based, tbl, subsystem)
    IN IF Len(plugin_names) = 0
       THEN [ret |-> NULL, err |-> "FWUPD_ERROR_NOT_FOUND"]
       ELSE [ret |-> Ptr(plugin_names), err |-> NoError]

UdevSubsystems == {<<"block">>, <<"block", "partition">>, <<"usb">>}
PluginNames == {NULL} \cup {Ptr(PluginOrder[i]) : i \in 1..Len(PluginOrder)}

AddUdevSubsystem ==
    \E subsystem \in UdevSubsystems, plugin_name \in PluginNames :
        /\ pc = "idle"
        /\ udev_subsystems' =
               fu_context_add_udev_subsystem(udev_subsystems, subsystem, plugin_name)
        /\ call' = [op |-> "add_udev_subsystem", subsystem |-> subsystem,
                    plugin_name |-> plugin_name]
        /\ UNCHANGED <<flags, hwids, smbios, quirks, hwid_flags, host_bios_settings>>
        /\ UNCHANGED <<espVars, miscVars, pc>>

GetPluginNamesForUdevSubsystem ==
    \E subsystem \in UdevSubsystems :
        /\ pc = "idle"
        /\ call' = [op |-> "get_plugin_names_for_udev_subsystem", subsystem |-> subsystem,
                    ret |-> fu_context_get_plugin_names_for_udev_subsystem(
                                udev_subsystems, subsystem).ret,
                    err |-> fu_context_get_plugin_names_for_udev_subsystem(
                                udev_subsystems, subsystem).err]
        /\ UNCHANGED <<hwVars, espVars, miscVars, pc>>

\* the keys of the hash table, in no order
fu_context_get_udev_subsystems(tbl) == DOMAIN tbl

GetUdevSubsystems ==
    /\ pc = "idle"
    /\ call' = [op |-> "get_udev_subsystems",
                ret |-> fu_context_get_udev_subsystems(udev_subsystems)]
    /\ UNCHANGED <<hwVars, espVars, miscVars, pc>>

NextUdev ==
    \/ AddUdevSubsystem
    \/ GetPluginNamesForUdevSubsystem
    \/ GetUdevSubsystems

SpecUdev == Init /\ [][NextUdev]_vars

\* C25, as the specification states it: the plugin names returned for a
\* subsystem are in strictly ascending order, so none is there twice
C25_PluginNamesSortedSet ==
    (call.op = "get_plugin_names_for_udev_subsystem" /\ call.ret # NULL)
    => \A i, j \in 1..Len(call.ret[1]) :
           i < j => PluginRank(call.ret[1][i]) < PluginRank(call.ret[1][j])

(***************************************************************************)
(* Properties of load_quirks and of the load_hwinfo pipeline, checked      *)
(* under SpecHw                                                            *)
(***************************************************************************)
\* C26: load_quirks returns TRUE and sets no error whether or not the quirks
\* loaded, and a call whose quirk load failed changes nothing else of the
\* Context.
C26_LoadQuirksNeverFails ==
    [][call'.op = "load_quirks"
       => /\ call'.ret = TRUE
          /\ call'.err = NoError
          /\ ~call'.quirks_ok
               => UNCHANGED <<flags, hwids, smbios, hwid_flags, udev_subsystems,
                              host_bios_settings, espVars, miscVars, pc>>]_vars

\* C26 witness: a call whose quirk load failed has returned TRUE without an
\* error, on a Context that holds loaded hardware info.
C26_Witness ==
    /\ call.op = "load_quirks"
    /\ ~call.quirks_ok
    /\ call.ret = TRUE
    /\ call.err = NoError
    /\ LOADED_HWINFO \in flags
    /\ hwids.values # {}

\* the pipeline stages that come after the setup functions
AfterSetupFuncs == {"hwids-setup", "set-flags", "detect-fde", "reload-bios-settings"}

\* C28: the map lists config, smbios, fdt, kenv, dmi, darwin in this order; a
\* call attempts the selected entries only, in that order; no turn of the loop
\* touches the flags, and the step that leaves the loop has passed every entry
\* and sets LOADED_HWINFO, so that the flag is set in every later stage.
C28_FlagAfterSelectedProbes ==
    /\ [i \in 1..Len(hwids_setup_map) |-> hwids_setup_map[i].name]
           = <<"config", "smbios", "fdt", "kenv", "dmi", "darwin">>
    /\ []((call.op = "load_hwinfo" /\ pc \in AfterSetupFuncs)
            => /\ LOADED_HWINFO \in flags
               /\ call.attempted
                      = SelectedSetupFuncs(call.hwflags, Len(hwids_setup_map)))
    /\ [][pc = "hwids-setup-funcs"
            => IF pc' = "hwids-setup-funcs"
               THEN /\ flags' = flags
                    /\ \/ call'.attempted = call.attempted
                       \/ /\ hwids_setup_map[call.i].flag \in call.hwflags
                          /\ call'.attempted
                                 = Append(call.attempted, hwids_setup_map[call.i].name)
               ELSE /\ pc' = "hwids-setup"
                    /\ call.i > Len(hwids_setup_map)
                    /\ call'.attempted = call.attempted
                    /\ flags' = flags \cup {LOADED_HWINFO}]_vars

\* C28 witness: a call with an empty flags argument, entered with the flag
\* unset, has attempted nothing and has set the flag before fu_hwids_setup.
C28_Witness ==
    /\ call.op = "load_hwinfo"
    /\ pc = "hwids-setup"
    /\ call.hwflags = {}
    /\ call.attempted = <<>>
    /\ call.done = 1
    /\ flags = {LOADED_HWINFO}

\* C29: a call whose config load failed returns FALSE with the error of the
\* config, having attempted no setup function and finished no step, and
\* changes nothing of the Context; a call returns FALSE in this case only.
C29_ConfigFailureIsFatal ==
    /\ []((call.op = "load_hwinfo" /\ ~call.config_ok)
            => /\ pc = "idle"
               /\ call.ret = FALSE
               /\ call.err = "config"
               /\ call.attempted = <<>>
               /\ call.done = 0)
    /\ []((LoadHwinfoReturned /\ (call.ret = FALSE \/ call.err # NoError))
            => ~call.config_ok)
    /\ [][(pc = "idle" /\ call'.op = "load_hwinfo" /\ ~call'.config_ok)
            => UNCHANGED <<hwVars, espVars, miscVars, pc>>]_vars

\* C29 witness: the config load failed on a Context that never loaded its
\* hardware info: the flag is unset and nothing is registered.
C29_Witness ==
    /\ LoadHwinfoReturned
    /\ ~call.config_ok
    /\ call.hwflags = FuContextHwidFlags
    /\ call.ret = FALSE
    /\ LOADED_HWINFO \notin flags
    /\ hwid_flags = {}
    /\ udev_subsystems = <<>>

RECURSIVE SumSteps(_, _)
SumSteps(steps, n) == IF n = 0 THEN 0 ELSE SumSteps(steps, n - 1) + steps[n]

\* the number of steps finished when the call is at a stage
StepsDoneAt(stage) ==
    CASE stage = "hwids-setup-funcs" -> 0
      [] stage = "hwids-setup" -> 1
      [] stage = "set-flags" -> 2
      [] stage = "detect-fde" -> 3
      [] stage = "reload-bios-settings" -> 4
      [] stage = "idle" -> 5

\* C30: a call whose config loaded has declared the steps 1, 1, 3, 1, 94, 100
\* in all; the steps finished are as many as the stages passed, so five when
\* the call returns, and each stage finishes one step whatever its outcome.
C30_FiveStepsDone ==
    /\ []((call.op = "load_hwinfo" /\ call.config_ok)
            => /\ call.steps = <<1, 1, 3, 1, 94>>
               /\ SumSteps(call.steps, Len(call.steps)) = 100
               /\ call.done = StepsDoneAt(pc))
    /\ [][(call.op = "load_hwinfo" /\ call'.op = "load_hwinfo" /\ pc # "idle")
            => call'.done = call.done + (IF pc' = pc THEN 0 ELSE 1)]_vars

\* C30 witness: a call has returned with five steps done although every
\* selected setup function, fu_hwids_setup and the BIOS-settings reload failed.
C30_Witness ==
    /\ LoadHwinfoReturned
    /\ call.config_ok
    /\ call.nfailed = 3
    /\ call.hwids_failed
    /\ call.bios_failed
    /\ call.done = 5
    /\ call.done = Len(call.steps)

(***************************************************************************)
(* fu_context_get_fdt.  fdt_files is what the two places looked at hold:   *)
(* the override system.dtb and the fdt of sysfs, each absent, a blob that  *)
(* parses or a blob that does not.  A parsed FDT is a record of the blob   *)
(* it was parsed from and of the place the blob was at.                    *)
(***************************************************************************)
FdtBlobs == {"dtb-a", "dtb-b"}
FdtBroken == "dtb-broken"
FdtFileStates == {NoFile, FdtBroken} \cup FdtBlobs
FdtPaths == {"local", "sys"}

\* the override first, then the value of the hardware
fu_context_get_fdt_file(files) ==
    IF files.local # NoFile
    THEN [ret |-> Ptr("local"), err |-> NoError, tested |-> <<"local">>]
    ELSE IF files.sys # NoFile
         THEN [ret |-> Ptr("sys"), err |-> NoError, tested |-> <<"local", "sys">>]
         ELSE [ret |-> NULL, err |-> "FWUPD_ERROR_NOT_SUPPORTED",
               tested |-> <<"local", "sys">>]

\* fu_firmware_parse_file of a FuFdtFirmware
fu_fdt_firmware_parse_file(files, path) ==
    IF files[path] \in FdtBlobs
    THEN [ret |-> Ptr([blob |-> files[path], path |-> path]), err |-> NoError]
    ELSE [ret |-> NULL, err |-> "failed to parse FDT"]

\* the parse of the file that was found, and what the Context keeps of it
fu_context_get_fdt_parse(cur, file, parsed) ==
    IF parsed.ret = NULL
    THEN [fdt |-> cur, ret |-> NULL, err |-> parsed.err,
          tested |-> file.tested, parsed |-> file.ret]
    ELSE [fdt |-> parsed.ret, ret |-> parsed.ret, err |-> NoError,
          tested |-> file.tested, parsed |-> file.ret]

\* the branch taken when nothing is cached
fu_context_get_fdt_load(cur, files, file) ==
    IF file.ret = NULL
    THEN [fdt |-> cur, ret |-> NULL, err |-> file.err,
          tested |-> file.tested, parsed |-> NULL]
    ELSE fu_context_get_fdt_parse(cur, file,
                                  fu_fdt_firmware_parse_file(files, file.ret[1]))

\* the same call loading the file whether or not an FDT is cached
fu_context_get_fdt_uncached(cur, files) ==
    fu_context_get_fdt_load(cur, files, fu_context_get_fdt_file(files))

fu_context_get_fdt(cur, files) ==
    IF cur = NULL
    THEN fu_context_get_fdt_load(cur, files, fu_context_get_fdt_file(files))
    ELSE [fdt |-> cur, ret |-> cur, err |-> NoError, tested |-> <<>>, parsed |-> NULL]

GetFdt ==
    /\ pc = "idle"
    /\ fdt' = fu_context_get_fdt(fdt, fdt_files).fdt
    /\ call' = [op |-> "get_fdt",
                ret |-> fu_context_get_fdt(fdt, fdt_files).ret,
                err |-> fu_context_get_fdt(fdt, fdt_files).err,
                tested |-> fu_context_get_fdt(fdt, fdt_files).tested,
                parsed |-> fu_context_get_fdt(fdt, fdt_files).parsed]
    /\ UNCHANGED <<hwVars, espVars, propVars, backends, fdt_files, pc>>

\* the system writes, replaces or removes one of the two files
WriteFdtFile ==
    \E path \in FdtPaths, state \in FdtFileStates :
        /\ pc = "idle"
        /\ fdt_files' = [fdt_files EXCEPT ![path] = state]
        /\ call' = [op |-> "write_fdt_file", path |-> path, state |-> state]
        /\ UNCHANGED <<hwVars, espVars, propVars, backends, fdt, pc>>

NextFdt ==
    \/ GetFdt
    \/ WriteFdtFile

SpecFdt == Init /\ [][NextFdt]_vars

\* C27: once an FDT is cached it is never replaced, and a call then returns
\* the cached object without testing for a file or parsing one; a call made
\* with nothing cached looks for the file, parses one file at most, caches
\* what it returns, and caches nothing when it fails.
C27_ParsedOnce ==
    /\ [][fdt # NULL => fdt' = fdt]_vars
    /\ [][call'.op = "get_fdt"
            => IF fdt # NULL
               THEN /\ call'.ret = fdt
                    /\ call'.err = NoError
                    /\ call'.tested = <<>>
                    /\ call'.parsed = NULL
               ELSE /\ call'.tested # <<>>
                    /\ fdt' = call'.ret
                    /\ call'.ret # NULL => call'.parsed # NULL
                    /\ (call'.ret = NULL) = (call'.err # NoError)]_vars

\* C27 witness: a call has returned the FDT parsed by an earlier call, without
\* looking at the files, after the file it was parsed from was replaced by one
\* that does not parse.
C27_Witness ==
    /\ call.op = "get_fdt"
    /\ call.tested = <<>>
    /\ call.ret = Ptr([blob |-> "dtb-a", path |-> "local"])
    /\ fdt = call.ret
    /\ fdt_files.local = FdtBroken

\* C27 witness of the failures: a call found a file that does not parse and
\* left nothing cached.
C27_FailureWitness ==
    /\ call.op = "get_fdt"
    /\ call.parsed = Ptr("sys")
    /\ call.err = "failed to parse FDT"
    /\ fdt = NULL

(***************************************************************************)
(* The flags over the life of a Context                                    *)
(***************************************************************************)
\* a load_hwinfo call has run to its end on this Context: only its last stage
\* registers the firmware-attributes subsystem
HwinfoLoadedOnce == <<"firmware-attributes">> \in DOMAIN udev_subsystems

\* C31, as the specification states it: after a load_hwinfo call has run to
\* its end no operation clears LOADED_HWINFO, and every gated accessor called
\* from then on answers from the store
C31_LoadedStaysSet ==
    [][HwinfoLoadedOnce
         => /\ LOADED_HWINFO \in flags => LOADED_HWINFO \in flags'
            /\ call'.op \in GatedAccessors => call'.consulted]_vars

\* C32, as the specification states it: add_flag leaves every bit of its mask
\* set and remove_flag leaves none of them set
C32_WholeMaskApplied ==
    [][/\ call'.op = "add_flag" => call'.arg \subseteq flags'
       /\ call'.op = "remove_flag" => (call'.arg \cap flags') = {}]_vars

(***************************************************************************)
(* FU_CONTEXT_FLAG_INHIBIT_VOLUME_MOUNT, checked under SpecEsp             *)
(***************************************************************************)
\* the boot entry names a hard drive and a file, and a volume of the list has
\* that hard-drive device path
EntryResolves(entry, volumes) ==
    /\ entry.dp_list
    /\ entry.hdd # NULL
    /\ entry.path
    /\ \E i \in 1..Len(volumes) : volumes[i].dp = entry.hdd

\* C33: with INHIBIT_VOLUME_MOUNT set a get_default_esp call mounts nothing,
\* returns no volume, and fails with NOT_SUPPORTED when the list of
\* candidates is not empty; a get_esp_files call mounts nothing, and an entry
\* that resolves to a volume fails with NOT_SUPPORTED, is the last entry
\* looked at, and makes the call return NULL with that error.
C33_InhibitedNeverMounts ==
    /\ (call.op = "get_default_esp" /\ call.inhibit)
         => /\ call.events = <<>>
            /\ call.ret = NULL
            /\ esp_volumes # <<>> => call.err = "FWUPD_ERROR_NOT_SUPPORTED"
    /\ (call.op = "get_esp_files" /\ call.inhibit)
         => /\ call.events = <<>>
            /\ \A i \in 1..Len(call.results) :
                   EntryResolves(call.entries[1][i], esp_volumes)
                     => /\ call.results[i].err = "FWUPD_ERROR_NOT_SUPPORTED"
                        /\ i = Len(call.results)
                        /\ call.ret = NULL
                        /\ call.err = "FWUPD_ERROR_NOT_SUPPORTED"

\* C33 witness: with the flag set, the second boot entry resolved to a cached
\* volume and ended the call, the first one having been skipped.
C33_Witness ==
    /\ call.op = "get_esp_files"
    /\ call.inhibit
    /\ Len(call.results) = 2
    /\ call.results[1].err = "FWUPD_ERROR_NOT_FOUND"
    /\ EntryResolves(call.entries[1][2], esp_volumes)
    /\ call.ret = NULL
    /\ call.err = "FWUPD_ERROR_NOT_SUPPORTED"

\* C33 witness of the override: with the flag set the only candidate is the
\* volume of the environment variable and get_default_esp refuses it.
C33_EnvWitness ==
    /\ call.op = "get_default_esp"
    /\ call.inhibit
    /\ env_esp_path # NULL
    /\ esp_volumes = <<EnvVolume(env_esp_path[1])>>
    /\ call.err = "FWUPD_ERROR_NOT_SUPPORTED"

(***************************************************************************)
(* fu_context_efivars_check_free_space.  space is what                     *)
(* fu_efivars_space_free gave: the free bytes, or G_MAXUINT64 with an      *)
(* error set.                                                              *)
(***************************************************************************)
IGNORE_EFIVARS_FREE_SPACE == "IGNORE_EFIVARS_FREE_SPACE"
\* the all-ones guint64, kept apart from every byte count
G_MAXUINT64 == -1

\* the same check refusing a free space that equals the count
fu_context_efivars_check_free_space_strict(f, count, space) ==
    IF fu_context_has_flag(f, {IGNORE_EFIVARS_FREE_SPACE})
    THEN [ret |-> TRUE, err |-> NoError, queried |-> FALSE]
    ELSE IF space.ret = G_MAXUINT64
    THEN [ret |-> FALSE, err |-> space.err, queried |-> TRUE]
    ELSE IF space.ret <= count
    THEN [ret |-> FALSE, err |-> "FWUPD_ERROR_BROKEN_SYSTEM", queried |-> TRUE]
    ELSE [ret |-> TRUE, err |-> NoError, queried |-> TRUE]

fu_context_efivars_check_free_space(f, count, space) ==
    IF fu_context_has_flag(f, {IGNORE_EFIVARS_FREE_SPACE})
    THEN [ret |-> TRUE, err |-> NoError, queried |-> FALSE]
    ELSE IF space.ret = G_MAXUINT64
    THEN [ret |-> FALSE, err |-> space.err, queried |-> TRUE]
    ELSE IF space.ret < count
    THEN [ret |-> FALSE, err |-> "FWUPD_ERROR_BROKEN_SYSTEM", queried |-> TRUE]
    ELSE [ret |-> TRUE, err |-> NoError, queried |-> TRUE]

\* the byte counts asked for and the byte counts free
EfivarsCounts == {0, 1, 1024, 1025, 4096}
EfivarsSpaceFree ==
    {[ret |-> G_MAXUINT64, err |-> "FWUPD_ERROR_NOT_SUPPORTED"]}
        \cup {[ret |-> n, err |-> NoError] : n \in {0, 1, 1024, 2048}}

EfivarsCheckFreeSpace ==
    \E count \in EfivarsCounts, space \in EfivarsSpaceFree :
        /\ pc = "idle"
        /\ call' = [op |-> "efivars_check_free_space", count |-> count, space |-> space,
                    ret |-> fu_context_efivars_check_free_space(flags, count, space).ret,
                    err |-> fu_context_efivars_check_free_space(flags, count, space).err,
                    queried |->
                        fu_context_efivars_check_free_space(flags, count, space).queried]
        /\ UNCHANGED <<hwVars, espVars, miscVars, pc>>

EfivarsFlagMasks == {{IGNORE_EFIVARS_FREE_SPACE}, {INHIBIT_VOLUME_MOUNT}}

NextEfivars ==
    \/ EfivarsCheckFreeSpace
    \/ AddFlag(EfivarsFlagMasks)
    \/ RemoveFlag(EfivarsFlagMasks)

SpecEfivars == Init /\ [][NextEfivars]_vars

\* C34: with IGNORE_EFIVARS_FREE_SPACE set the check succeeds without asking
\* the variable store; otherwise it asks, fails with the error of the store
\* when the store fails, fails with BROKEN_SYSTEM when the free space is below
\* the count, and succeeds when the free space is the count or more.
C34_FreeSpaceCheck ==
    call.op = "efivars_check_free_space"
      => IF IGNORE_EFIVARS_FREE_SPACE \in flags
         THEN call.ret = TRUE /\ call.err = NoError /\ ~call.queried
         ELSE /\ call.queried
              /\ IF call.space.err # NoError
                 THEN call.ret = FALSE /\ call.err = call.space.err
                 ELSE IF call.space.ret - call.count < 0
                 THEN call.ret = FALSE /\ call.err = "FWUPD_ERROR_BROKEN_SYSTEM"
                 ELSE call.ret = TRUE /\ call.err = NoError

\* C34 witness: the flag is clear and the free space is exactly the count
\* asked for.
C34_Witness ==
    /\ call.op = "efivars_check_free_space"
    /\ IGNORE_EFIVARS_FREE_SPACE \notin flags
    /\ call.count = 1024
    /\ call.space.ret = 1024
    /\ call.ret = TRUE

\* C34 witness of the escape hatch: the flag is set, the store would have
\* failed, and the check succeeded without asking it.
C34_IgnoreWitness ==
    /\ call.op = "efivars_check_free_space"
    /\ IGNORE_EFIVARS_FREE_SPACE \in flags
    /\ call.space.ret = G_MAXUINT64
    /\ call.ret = TRUE
    /\ ~call.queried

(***************************************************************************)
(* The files get_esp_files collects, checked under SpecEspFiles            *)
(***************************************************************************)
StageOrder == <<"first", "second", "revocations">>
StageRank(stage) == CHOOSE k \in 1..Len(StageOrder) : StageOrder[k] = stage

\* the boot entry has no device-path list, no hard-drive node or no file-path
\* node
EntryLacksPath(entry) == ~entry.dp_list \/ entry.hdd = NULL \/ ~entry.path

\* C35: the list returned is what the entries added, entry after entry; the
\* files of one entry carry the index of the entry and come in the order
\* first stage, second stage, revocations; the second stage and the
\* revocations are tried only with their flag and a file name that ends with
\* the name of the shim, the first stage only with its flag; an entry without
\* a list, a hard-drive node or a file-path node succeeds and adds nothing.
C35_FilesInOrder ==
    (call.op = "get_esp_files" /\ call.entries # NULL)
    => /\ call.ret # NULL => call.ret[1] = AddedFiles(call.results)
       /\ \A i \in 1..Len(call.results) :
            /\ \A k \in 1..Len(call.results[i].added) :
                 /\ call.results[i].added[k].idx = call.entries[1][i].idx
                 /\ call.results[i].added[k].stage
                        \in {call.results[i].tried[t] : t \in 1..Len(call.results[i].tried)}
                 /\ \A m \in 1..(k - 1) :
                        StageRank(call.results[i].added[m].stage)
                            < StageRank(call.results[i].added[k].stage)
            /\ \A t \in 1..Len(call.results[i].tried) :
                 /\ \A u \in 1..(t - 1) :
                        StageRank(call.results[i].tried[u])
                            < StageRank(call.results[i].tried[t])
                 /\ call.results[i].tried[t] = "first"
                        => INCLUDE_FIRST_STAGE \in call.fflags
                 /\ call.results[i].tried[t] = "second"
                        => /\ INCLUDE_SECOND_STAGE \in call.fflags
                           /\ HasSuffix(call.entries[1][i].name[1], shim_name)
                 /\ call.results[i].tried[t] = "revocations"
                        => /\ INCLUDE_REVOCATIONS \in call.fflags
                           /\ HasSuffix(call.entries[1][i].name[1], shim_name)
            /\ EntryLacksPath(call.entries[1][i])
                 => /\ call.results[i].ok
                    /\ call.results[i].added = <<>>
                    /\ call.results[i].tried = <<>>

\* C35 witness: a call with all three flags went past entries without a list,
\* a hard-drive node and a file-path node and past a file that only holds the
\* name of the shim, and returned the three files of entry 15 and then the
\* first stages of entries 11 and 3.
C35_Witness ==
    /\ call.op = "get_esp_files"
    /\ call.fflags = {INCLUDE_FIRST_STAGE, INCLUDE_SECOND_STAGE, INCLUDE_REVOCATIONS}
    /\ call.ret = Ptr(<<[idx |-> 15, stage |-> "first"], [idx |-> 15, stage |-> "second"],
                        [idx |-> 15, stage |-> "revocations"],
                        [idx |-> 11, stage |-> "first"], [idx |-> 3, stage |-> "first"]>>)

(***************************************************************************)
(* The lookup of a volume by its hard-drive device path                    *)
(***************************************************************************)
\* a second disk with the partition table of the first, and a volume of which
\* no hard-drive device path can be made
Sdz1Clone == [Sda1Esp EXCEPT !.id = "sdz1", !.mount_point = Ptr("/run/media/sdz1")]
Loop0NoDp == [Volume("loop0", FU_VOLUME_KIND_ESP, "vfat", FALSE, 65536) EXCEPT !.dp = NULL]
DpUniverse == {Sda1Esp, Sdz1Clone, Loop0NoDp, Sdb1Esp}

NextDevicePath ==
    \/ AddCandidate(DpUniverse)
    \/ GetEspVolumeByHardDriveDevicePath

SpecDevicePath == Init /\ [][NextDevicePath]_vars

\* the places of the list whose volume has the device path asked for
DpMatches(volumes, dp) == {i \in 1..Len(volumes) : volumes[i].dp = Ptr(dp)}

\* C36: the lookup returns the first volume of the list that has the device
\* path asked for, whatever volumes without a device path come before it;
\* NOT_FOUND when the list has volumes and none of them matches; the error of
\* get_esp_volumes when there is no volume at all.
C36_FirstMatchingVolume ==
    call.op = "get_esp_volume_by_hard_drive_device_path"
    => IF esp_volumes = <<>>
       THEN /\ call.ret = NULL
            /\ call.err # NoError
            /\ call.err = call.volumes_err
       ELSE IF DpMatches(esp_volumes, call.dp) = {}
       THEN call.ret = NULL /\ call.err = "FWUPD_ERROR_NOT_FOUND"
       ELSE /\ call.err = NoError
            /\ \E i \in DpMatches(esp_volumes, call.dp) :
                   /\ call.ret = Ptr(esp_volumes[i])
                   /\ \A j \in DpMatches(esp_volumes, call.dp) : i <= j

\* C36 witness: the list holds a volume without a device path and then two
\* volumes with the device path asked for, and the first of the two is
\* returned.
C36_Witness ==
    /\ call.op = "get_esp_volume_by_hard_drive_device_path"
    /\ esp_volumes = <<Loop0NoDp, Sdz1Clone, Sda1Esp>>
    /\ call.dp = "HD-sda1"
    /\ call.ret = Ptr(Sdz1Clone)

\* C36 witness of the empty list: nothing was cached and nothing was found.
C36_EmptyWitness ==
    /\ call.op = "get_esp_volume_by_hard_drive_device_path"
    /\ esp_volumes = <<>>
    /\ call.ret = NULL
    /\ call.err = call.volumes_err
    /\ call.enumerated

(***************************************************************************)
(* Properties of the udev subsystems, checked under SpecUdev               *)
(***************************************************************************)
\* the names of a list, as a set
NamesOf(list) == {list[i] : i \in 1..Len(list)}

\* the names registered for a subsystem, none when it is not watched
RegisteredFor(tbl, subsystem) ==
    IF subsystem \in DOMAIN tbl THEN tbl[subsystem] ELSE <<>>

\* C37: whenever base:devtype is among the subsystems watched, base is too,
\* in the table and in what get_udev_subsystems returns; the list kept for a
\* subsystem is in strictly ascending order, so no name is in it twice; a
\* registration of base:devtype leaves both watched and adds no name to base.
C37_BaseWatched ==
    /\ [](/\ \A subsystem \in DOMAIN udev_subsystems :
               /\ Len(subsystem) > 1 => <<subsystem[1]>> \in DOMAIN udev_subsystems
               /\ \A i, j \in 1..Len(udev_subsystems[subsystem]) :
                      i < j => PluginRank(udev_subsystems[subsystem][i])
                                 < PluginRank(udev_subsystems[subsystem][j])
          /\ call.op = "get_udev_subsystems"
               => /\ call.ret = DOMAIN udev_subsystems
                  /\ \A subsystem \in call.ret :
                         Len(subsystem) > 1 => <<subsystem[1]>> \in call.ret)
    /\ [][(call'.op = "add_udev_subsystem" /\ Len(call'.subsystem) > 1)
            => /\ call'.subsystem \in DOMAIN udev_subsystems'
               /\ <<call'.subsystem[1]>> \in DOMAIN udev_subsystems'
               /\ RegisteredFor(udev_subsystems', <<call'.subsystem[1]>>)
                      = RegisteredFor(udev_subsystems, <<call'.subsystem[1]>>)]_vars

\* C37 witness: block:partition was registered with three plugins, in
\* descending order, and block is watched without a plugin name.
C37_Witness ==
    /\ call.op = "get_udev_subsystems"
    /\ <<"block", "partition">> \in call.ret
    /\ <<"block">> \in call.ret
    /\ udev_subsystems[<<"block", "partition">>] = PluginOrder
    /\ udev_subsystems[<<"block">>] = <<>>

\* C38: a registration with a plugin name puts the name in the list of its
\* subsystem, and no list ever loses a name; the lookup fails with NOT_FOUND
\* exactly when the list of the subsystem and, for base:devtype, the list of
\* base hold no name, also when the subsystem is watched; otherwise it
\* returns the names of base followed by the names of the exact subsystem.
C38_PluginNamesLookup ==
    /\ [](call.op = "get_plugin_names_for_udev_subsystem"
            => LET exact == RegisteredFor(udev_subsystems, call.subsystem)
                   based == IF Len(call.subsystem) > 1
                            THEN RegisteredFor(udev_subsystems, <<call.subsystem[1]>>)
                            ELSE <<>>
               IN IF NamesOf(exact) \cup NamesOf(based) = {}
                  THEN call.ret = NULL /\ call.err = "FWUPD_ERROR_NOT_FOUND"
                  ELSE call.ret = Ptr(based \o exact) /\ call.err = NoError)
    /\ [][/\ (call'.op = "add_udev_subsystem" /\ call'.plugin_name # NULL)
               => call'.plugin_name[1]
                      \in NamesOf(RegisteredFor(udev_subsystems', call'.subsystem))
          /\ \A subsystem \in DOMAIN udev_subsystems :
                 NamesOf(RegisteredFor(udev_subsystems, subsystem))
                     \subseteq NamesOf(RegisteredFor(udev_subsystems', subsystem))]_vars

\* C38 witness: the lookup of block:partition gave the name registered for
\* block and then the name registered for block:partition, while usb is
\* watched without a name.
C38_Witness ==
    /\ call.op = "get_plugin_names_for_udev_subsystem"
    /\ call.subsystem = <<"block", "partition">>
    /\ call.ret = Ptr(<<"redfish", "acpi_ivrs">>)
    /\ <<"usb">> \in DOMAIN udev_subsystems
    /\ udev_subsystems[<<"usb">>] = <<>>

\* C38 witness of the failure: usb is watched without a plugin name and the
\* lookup of usb fails.
C38_WatchedWitness ==
    /\ call.op = "get_plugin_names_for_udev_subsystem"
    /\ call.subsystem = <<"usb">>
    /\ <<"usb">> \in DOMAIN udev_subsystems
    /\ call.ret = NULL
    /\ call.err = "FWUPD_ERROR_NOT_FOUND"

(***************************************************************************)
(* Properties of the HWID flags, checked under SpecHw                      *)
(***************************************************************************)
\* the pieces of a value from position a to position b, as one string
RECURSIVE JoinPieces(_, _, _)
JoinPieces(value, a, b) ==
    IF a > b THEN "" ELSE value[a] \o JoinPieces(value, a + 1, b)

\* the comma-separated elements of a value: what lies between two neighbouring
\* commas, or between a comma and an end of the value; the empty value has none
CommaElements(value) ==
    LET cuts == {0, Len(value) + 1} \cup {i \in 1..Len(value) : value[i] = ","}
    IN IF Len(value) = 0 THEN {}
       ELSE {JoinPieces(value, a + 1, b - 1) :
                 <<a, b>> \in {ab \in cuts \X cuts :
                                   /\ ab[1] < ab[2]
                                   /\ \A k \in cuts : ~(ab[1] < k /\ k < ab[2])}}

\* the elements of the Flags values matched for the GUIDs the Context has
MatchedHwidFlags ==
    IF quirks
    THEN UNION {CommaElements(QuirkFlagsOf(hwids.guids[i])[1]) :
                    i \in {k \in 1..Len(hwids.guids) : QuirkFlagsOf(hwids.guids[k]) # NULL}}
    ELSE {}

\* C39: no HWID flag is present on a new Context; the set of HWID flags
\* changes only in the set-the-hwid-flags stage of load_hwinfo, which adds to
\* it the comma-separated elements of the Flags values matched for the HWID
\* GUIDs and removes nothing; has_hwid_flag(f) is TRUE exactly when f is in
\* that set.
C39_HwidFlags ==
    /\ hwid_flags = {}
    /\ [](call.op = "has_hwid_flag" => (call.ret <=> call.arg \in hwid_flags))
    /\ [][/\ hwid_flags \subseteq hwid_flags'
          /\ hwid_flags' # hwid_flags => pc = "set-flags"
          /\ (pc = "set-flags" /\ pc' # pc)
               => hwid_flags' = hwid_flags \cup MatchedHwidFlags]_vars

\* C39 witness: after a load_hwinfo that matched the Flags quirk of a GUID,
\* has_hwid_flag is TRUE for one element of the value.
C39_Witness ==
    /\ call.op = "has_hwid_flag"
    /\ call.arg = "no-ux-capsule"
    /\ call.ret = TRUE
    /\ hwid_flags = {"use-legacy-bootmgr-desc", "no-ux-capsule"}

\* C39 witness of the other answers: after such a load, has_hwid_flag is
\* FALSE for the whole value, which is no element of it.
C39_WholeValueWitness ==
    /\ call.op = "has_hwid_flag"
    /\ call.arg = "use-legacy-bootmgr-desc,no-ux-capsule"
    /\ call.ret = FALSE
    /\ hwid_flags # {}

\* C39 witness of a repeated load: a load_hwinfo was completed earlier, and a
\* later one has passed the stage that sets the flags, with both flags kept.
C39_LaterLoadWitness ==
    /\ pc = "detect-fde"
    /\ <<"firmware-attributes">> \in DOMAIN udev_subsystems
    /\ hwid_flags = {"use-legacy-bootmgr-desc", "no-ux-capsule"}

(***************************************************************************)
(* The two signals.  Both are defined RUN_LAST with no accumulator, the     *)
(* VOID__VOID marshaller, return type G_TYPE_NONE and no parameter; the     *)
(* class handlers of FuContextClass are never assigned.  Who is connected   *)
(* is kept by GObject, not by the Context: it is an input of the call.      *)
(***************************************************************************)
SignalNames == {"security-changed", "housekeeping"}
SignalHandlers == {<<>>, <<"engine">>, <<"engine", "plugin">>}

\* g_signal_emit(self, signals[...], 0): one emission, which runs the
\* handlers connected to that signal in the order they were connected, hands
\* them no parameter and collects nothing from them
g_signal_emit(connected, signal) ==
    [emitted |-> <<signal>>, params |-> <<>>, invoked |-> connected[signal],
     collected |-> NULL]

\* the same function emitting a second time
fu_context_security_changed_twice(connected) ==
    [g_signal_emit(connected, "security-changed")
        EXCEPT !.emitted = @ \o @, !.invoked = @ \o @]

fu_context_security_changed(connected) == g_signal_emit(connected, "security-changed")
fu_context_housekeeping(connected) == g_signal_emit(connected, "housekeeping")

\* the record a call leaves: who was connected and what the emission did
signal_call(name, connected, r) ==
    [op |-> name, connected |-> connected, emitted |-> r.emitted,
     params |-> r.params, invoked |-> r.invoked, collected |-> r.collected]

SecurityChanged ==
    \E connected \in [SignalNames -> SignalHandlers] :
        /\ pc = "idle"
        /\ call' = signal_call("security_changed", connected,
                               fu_context_security_changed(connected))
        /\ UNCHANGED <<hwVars, espVars, miscVars, pc>>

Housekeeping ==
    \E connected \in [SignalNames -> SignalHandlers] :
        /\ pc = "idle"
        /\ call' = signal_call("housekeeping", connected,
                               fu_context_housekeeping(connected))
        /\ UNCHANGED <<hwVars, espVars, miscVars, pc>>

NextSignals ==
    \/ SecurityChanged
    \/ Housekeeping
    \/ SetPowerState
    \/ SetBatteryLevel
    \/ AddFlag(StateFlagMasks)
    \/ RemoveFlag(StateFlagMasks)

SpecSignals == Init /\ [][NextSignals]_vars

\* the signal each of the two functions emits
SignalOf(op) == IF op = "security_changed" THEN "security-changed" ELSE "housekeeping"

\* C40: a call of security_changed or housekeeping emits its own signal once,
\* with no parameter, runs the handlers connected to that signal once each,
\* collects nothing from them and writes nothing of the Context; when no
\* handler is connected to the signal, nothing runs.
C40_SignalsFireAndForget ==
    /\ [](call.op \in {"security_changed", "housekeeping"}
            => /\ call.emitted = <<SignalOf(call.op)>>
               /\ call.params = <<>>
               /\ call.collected = NULL
               /\ call.invoked = call.connected[SignalOf(call.op)]
               /\ call.connected[SignalOf(call.op)] = <<>> => call.invoked = <<>>)
    /\ [][call'.op \in {"security_changed", "housekeeping"}
            => UNCHANGED <<hwVars, espVars, miscVars, pc>>]_vars

\* C40 witness: security_changed was called on a Context whose state had been
\* set, with two handlers connected to its signal, and both ran.
C40_Witness ==
    /\ call.op = "security_changed"
    /\ call.invoked = <<"engine", "plugin">>
    /\ call.connected["housekeeping"] = <<"engine">>
    /\ flags # {}
    /\ battery_level # FWUPD_BATTERY_LEVEL_INVALID

\* C40 witness without a subscriber: housekeeping was called with a handler
\* connected to the other signal only, and nothing ran.
C40_NoSubscriberWitness ==
    /\ call.op = "housekeeping"
    /\ call.connected["housekeeping"] = <<>>
    /\ call.connected["security-changed"] # <<>>
    /\ call.invoked = <<>>

====
